---------------------------- MODULE Spec2Model ----------------------------
(***************************************************************************)
(* A model of the VRRPv3 virtual router of github.com/Trisia/govrrp.       *)
(*                                                                         *)
(* The model follows the latest revision of the router                     *)
(* (src/unnamed/part_006, package govrrp) together with the matching       *)
(* revision of the multicast connection (src/unnamed/part_001) and the     *)
(* constants of src/unnamed/part_005.  Time is counted in milliseconds,    *)
(* the unit the code hands to time.NewTimer / time.NewTicker.              *)
(***************************************************************************)
EXTENDS Integers, Sequences, FiniteSets, TLC

VARIABLES
    vr,                  \* the VirtualRouter structs (configuration and state)
    advertisementTicker, \* r.advertisementTicker  (*time.Ticker)
    masterDownTimer,     \* r.masterDownTimer      (*time.Timer)
    eventChannel,        \* r.eventChannel  (chan EVENT, capacity 1)
    packetQueue,         \* r.packetQueue   (chan *VRRPPacket, capacity 512)
    wire,                \* datagrams waiting in the router's receive socket
    daemon,              \* the fetchVRRPDaemon goroutines and where they are
    sm,                  \* the goroutine running stateMachine()
    pending,             \* goroutines blocked in  r.eventChannel <- e
    stopPc,              \* position of the caller inside Stop()
    closed,              \* how many times r.close() has run
    starts,              \* number of Start() calls made so far
    net,                 \* the routers attached to the LAN segment
    obs,                 \* what the last state-machine iteration did
    codec                \* a packet on its way through the codec

vars == <<vr, advertisementTicker, masterDownTimer, eventChannel, packetQueue,
          wire, daemon, sm, pending, stopPc, closed, starts, net, obs,
          codec>>

---------------------------------------------------------------------------
(* Program constants                                                       *)

INIT == 0
MASTER == 1
BACKUP == 2

SHUTDOWN == 0
START == 1

IPv4 == 4
IPv6 == 6

VRRPv3 == 3
VRRPMultiTTL == 255
VRRPIPProtocolNumber == 112

PACKET_QUEUE_SIZE == 512
EVENT_CHANNEL_SIZE == 1

defaultPriority == 100
\* defaultAdvertisementInterval = 1 * time.Second, in centiseconds
defaultAdvertisementInterval == 100

VRRPMultiAddrIPv4 == <<224, 0, 0, 18>>
\* FF02:0:0:0:0:0:0:12
VRRPMultiAddrIPv6 == <<255, 2, 0, 0, 0, 0, 0, 0, 0, 0, 0, 0, 0, 0, 0, 18>>

Transitions ==
    {"Master2Backup", "Backup2Master", "Init2Master", "Init2Backup",
     "Master2Init", "Backup2Init"}

\* No handler is registered for a transition.
NoHandler == "none"

---------------------------------------------------------------------------
(* Bounds and input domains of the model                                   *)

\* Start() calls per router.
MaxStarts == 2
\* Datagrams the environment may have between socket and state machine.
MaxInFlight == 1

\* Datagrams a receive socket buffers before the kernel drops new ones.
SockBuf == 2

Routers == {"A", "B"}

\* The virtual router ID every router of the model is configured with.
LocalVRID == 240

IPA == <<10, 0, 0, 10>>
IPB == <<10, 0, 0, 20>>
\* a foreign peer below and a foreign peer above both routers
IPLow == <<10, 0, 0, 9>>
IPHigh == <<10, 0, 0, 21>>

InterfaceIP == [r \in Routers |-> IF r = "A" THEN IPA ELSE IPB]

\* link-local addresses fe80::10 and fe80::20 of the same interfaces, and a
\* foreign peer fe80::9 below both
IP6A == <<254, 128, 0, 0, 0, 0, 0, 0, 0, 0, 0, 0, 0, 0, 0, 16>>
IP6B == <<254, 128, 0, 0, 0, 0, 0, 0, 0, 0, 0, 0, 0, 0, 0, 32>>
IP6Low == <<254, 128, 0, 0, 0, 0, 0, 0, 0, 0, 0, 0, 0, 0, 0, 9>>

InterfaceIPv6 == [r \in Routers |-> IF r = "A" THEN IP6A ELSE IP6B]

U16(x) == x % 65536
U8(x) == x % 256

Min(S) == CHOOSE x \in S : \A y \in S : x <= y

---------------------------------------------------------------------------
(* Pure functions of the router                                            *)

\* largerThan(ip1, ip2): byte-wise ip1 > ip2; false when the lengths differ.
RECURSIVE largerThanFrom(_, _, _)
largerThanFrom(ip1, ip2, index) ==
    IF index > Len(ip1) THEN FALSE
    ELSE IF ip1[index] > ip2[index] THEN TRUE
    ELSE IF ip1[index] < ip2[index] THEN FALSE
    ELSE largerThanFrom(ip1, ip2, index + 1)

\* A comparison that holds for equal addresses as well.
largerThanOrEqual(ip1, ip2) ==
    IF Len(ip1) # Len(ip2) THEN FALSE
    ELSE ip1 = ip2 \/ largerThanFrom(ip1, ip2, 1)

largerThan(ip1, ip2) ==
    IF Len(ip1) # Len(ip2) THEN FALSE ELSE largerThanFrom(ip1, ip2, 1)

\* A setter that never takes the priority of 255 away from an owner.
setPriorityUnlessOwner(v, Priority) ==
    IF v.priority = 255 THEN [v EXCEPT !.owner = TRUE]
    ELSE [v EXCEPT !.priority = Priority]

\* r.setPriority(Priority): marks the router as owner when the priority it
\* holds at the call is 255, then stores the new priority unconditionally.
setPriority(v, Priority) ==
    [v EXCEPT !.owner = IF v.priority = 255 THEN TRUE ELSE v.owner,
              !.priority = Priority]

\* A skew time computed with the product held in 16 bits.
skewOfNarrow(interval, priority) ==
    U16(interval - U16(U16(interval * priority) \div 256))

\* uint16(float32(a) * float32(p) / 256): a*p < 2^24 is exact in float32 and
\* the division by 256 is exact, so the conversion truncates to the floor.
skewOf(interval, priority) ==
    U16(interval - U16((interval * priority) \div 256))

\* r.setMasterAdvInterval(Interval): all three fields are uint16.
setMasterAdvInterval(v, Interval) ==
    [v EXCEPT !.advertisementIntervalOfMaster = Interval,
              !.skewTime = skewOf(Interval, v.priority),
              !.masterDownInterval =
                  U16(U16(3 * Interval) + skewOf(Interval, v.priority))]

\* r.SetAdvInterval(Interval), Interval in milliseconds.
SetAdvInterval(v, ms) ==
    [v EXCEPT !.advertisementInterval =
                  U16((IF ms < 10 THEN 10 ELSE ms) \div 10)]

\* r.SetPriorityAndMasterAdvInterval(priority, interval), interval in ms.
SetPriorityAndMasterAdvInterval(v, priority, ms) ==
    setMasterAdvInterval(setPriority(v, priority),
                         U16((IF ms < 10 THEN 10 ELSE ms) \div 10))

\* r.SetPreemptMode(flag)
SetPreemptMode(v, flag) == [v EXCEPT !.preempt = flag]

\* The zero value of the struct, new(VirtualRouter).
\* The protectedIPaddrs map has no write under way.  (The runtime flags a
\* map for the duration of an assignment or a deletion.)
NoWrite == [op |-> "none", ip |-> <<>>]

ZeroRouter ==
    [vrID |-> 0, priority |-> 0, state |-> INIT, preempt |-> FALSE,
     owner |-> FALSE, advertisementInterval |-> 0,
     advertisementIntervalOfMaster |-> 0, skewTime |-> 0,
     masterDownInterval |-> 0, ipvX |-> 0, preferredSourceIP |-> <<>>,
     protectedIPaddrs |-> {}, hashWriting |-> NoWrite,
     transitionHandler |-> [t \in Transitions |-> NoHandler]]

\* NewVirtualRouterSpec(VRID, ift, preferIP, priority): the family is that
\* of preferIP (To4() succeeds on a 4-byte address).
\* The owner test reads the priority of the fresh struct, which is 0.
NewVirtualRouterSpec(VRID, preferIP, priority) ==
    LET v0 == [ZeroRouter EXCEPT
                  !.owner = (ZeroRouter.priority = 255),
                  !.state = INIT,
                  !.preempt = TRUE,
                  !.vrID = VRID,
                  !.ipvX = IF Len(preferIP) = 4 THEN IPv4 ELSE IPv6,
                  !.preferredSourceIP = preferIP]
        v1 == SetAdvInterval(v0, defaultAdvertisementInterval * 10)
    IN  SetPriorityAndMasterAdvInterval(v1, priority,
                                        defaultAdvertisementInterval * 10)

\* NewVirtualRouter(VRID, nif, Owner, IPvX): priority 100, or 255 for Owner.
NewVirtualRouter(VRID, preferIP, Owner) ==
    NewVirtualRouterSpec(VRID, preferIP,
                         IF Owner THEN 255 ELSE defaultPriority)

\* packet.SetAdvertisementInterval / GetAdvertisementInterval: 12 bits.
MaxAdvIntField(interval) == interval % 4096

\* r.assembleVRRPPacket(): the advertisement built from the router's fields.
assembleVRRPPacket(v) ==
    [version |-> VRRPv3, type |-> 1, vrid |-> v.vrID,
     priority |-> v.priority,
     count |-> U8(Cardinality(v.protectedIPaddrs)),
     maxAdvInt |-> MaxAdvIntField(v.advertisementInterval),
     addrs |-> v.protectedIPaddrs,
     saddr |-> v.preferredSourceIP,
     daddr |-> IF v.ipvX = IPv4 THEN VRRPMultiAddrIPv4
                                ELSE VRRPMultiAddrIPv6]

\* time.Duration(x*10) * time.Millisecond with x uint16: the product x*10
\* is formed in uint16 before the conversion.
DurationMs(x) == U16(x * 10)

---------------------------------------------------------------------------
(* Timers                                                                  *)

\* A *time.Timer: armed while counting down; C is its 1-slot channel.  On
\* expiry the runtime takes the timer off its heap, from when Stop()
\* reports false, and then runs the timer's function, which puts the time
\* on C; sending holds between the two.
NilTimer ==
    [made |-> FALSE, armed |-> FALSE, d |-> 0, remaining |-> 0, C |-> 0,
     sending |-> FALSE]

NewTimer(d) ==
    [made |-> TRUE, armed |-> TRUE, d |-> d, remaining |-> d, C |-> 0,
     sending |-> FALSE]

\* t.Reset(d)
ResetTimer(t, d) == [t EXCEPT !.armed = TRUE, !.d = d, !.remaining = d]

\* A stop that leaves the timer as it is.
leaveMasterDownTimer(t) == t

\* r.stopMasterDownTimer(): Stop(), and a non-blocking drain of C when Stop
\* reports that the timer had already expired or been stopped.
stopMasterDownTimer(t) ==
    IF t.armed THEN [t EXCEPT !.armed = FALSE, !.d = 0, !.remaining = 0]
    ELSE [t EXCEPT !.C = 0]

\* r.resetMasterDownTimer()
resetMasterDownTimer(v, t) ==
    ResetTimer(stopMasterDownTimer(t), DurationMs(v.masterDownInterval))

\* A reset after a resignation that waits the whole master-down interval.
resetToMasterDownInterval(v, t) ==
    ResetTimer(stopMasterDownTimer(t), DurationMs(v.masterDownInterval))

\* r.resetMasterDownTimerToSkewTime()
resetMasterDownTimerToSkewTime(v, t) ==
    ResetTimer(stopMasterDownTimer(t), DurationMs(v.skewTime))

\* r.makeMasterDownTimer()
makeMasterDownTimer(v, t) ==
    IF ~t.made THEN NewTimer(DurationMs(v.masterDownInterval))
    ELSE resetMasterDownTimer(v, t)

\* A *time.Ticker.
NilTicker ==
    [made |-> FALSE, running |-> FALSE, period |-> 0, remaining |-> 0, C |-> 0]

\* r.makeAdvertTicker(): time.NewTicker panics on a non-positive period.
TickerPanics(v) == DurationMs(v.advertisementInterval) = 0

\* A ticker that is created but never runs.
idleAdvertTicker(v) ==
    [made |-> TRUE, running |-> FALSE, period |-> 0, remaining |-> 0, C |-> 0]

\* A ticker whose period is taken from the Master's interval.
makeAdvertTickerOfMaster(v) ==
    [made |-> TRUE, running |-> TRUE,
     period |-> DurationMs(v.advertisementIntervalOfMaster),
     remaining |-> DurationMs(v.advertisementIntervalOfMaster), C |-> 0]

\* A ticker that is started only if the advertisement before it went out.
makeAdvertTickerIfSent(v) ==
    IF \E r \in Routers : vr[r] = v /\ closed[r] > 0
    THEN idleAdvertTicker(v)
    ELSE [made |-> TRUE, running |-> TRUE,
          period |-> DurationMs(v.advertisementInterval),
          remaining |-> DurationMs(v.advertisementInterval), C |-> 0]

makeAdvertTicker(v) ==
    [made |-> TRUE, running |-> TRUE,
     period |-> DurationMs(v.advertisementInterval),
     remaining |-> DurationMs(v.advertisementInterval), C |-> 0]

\* r.stopAdvertTicker()
stopAdvertTicker(k) == [k EXCEPT !.running = FALSE, !.period = 0, !.remaining = 0]

---------------------------------------------------------------------------
(* The network and the reader                                              *)

\* A close that leaves the connections and the announcer open.
leaveOpen(n) == n

\* r.close(): the announcer and the VRRP connection are closed; n counts
\* the runs of r.close() so far.
close(n) == n + 1

\* The IP datagram that carries an advertisement sent by router s.
Datagram(s, pkt) ==
    LET src == IF vr[s].ipvX = IPv4 THEN InterfaceIP[s] ELSE InterfaceIPv6[s]
        dst == IF vr[s].ipvX = IPv4 THEN VRRPMultiAddrIPv4
                                    ELSE VRRPMultiAddrIPv6
    IN  [ttl |-> VRRPMultiTTL, src |-> src, dst |-> dst,
         sumOK |-> (pkt.saddr = src /\ pkt.daddr = dst), pkt |-> pkt]

\* A WriteMessage that puts the datagram on the network twice.
WriteMessageTwice(w, s, pkt) ==
    [q \in Routers |->
        IF s \in net /\ q \in net /\ closed[s] = 0 /\ closed[q] = 0
           /\ Len(w[q]) + 1 < SockBuf
        THEN w[q] \o <<Datagram(s, pkt), Datagram(s, pkt)>>
        ELSE w[q]]

\* conn.WriteMessage(packet) to the multicast group.  Multicast loopback is
\* on, so the sender's own socket receives a copy.  A closed connection
\* fails the write; a full socket buffer drops the datagram.
WriteMessage(w, s, pkt) ==
    [q \in Routers |->
        IF s \in net /\ q \in net /\ closed[s] = 0 /\ closed[q] = 0
           /\ Len(w[q]) < SockBuf
        THEN Append(w[q], Datagram(s, pkt))
        ELSE w[q]]

\* The length test of FromBytes as ReadMessage() calls it: the IPv4
\* connection passes the n bytes read, the IPv6 connection its whole
\* buffer of 4096 bytes.
FromBytesOK(d) ==
    IF Len(d.dst) = 4
    THEN 8 + d.pkt.count * 4 <= 8 + Cardinality(d.pkt.addrs) * 4
    ELSE 8 + d.pkt.count * 4 * 4 <= 4096

\* A ReadMessage() that does not look at the hop count.
ReadMessageAnyTTL(d) ==
    /\ FromBytesOK(d)
    /\ d.pkt.version = VRRPv3
    /\ d.sumOK

\* ReadMessage() of either family returns an error unless the TTL or hop
\* limit is 255, FromBytes finds the addresses the count declares, the
\* version is 3 and the checksum validates.
ReadMessageOK(d) ==
    /\ d.ttl = 255
    /\ FromBytesOK(d)
    /\ d.pkt.version = VRRPv3
    /\ d.sumOK

\* IPv4VRRPMsgCon.ReadMessage(): the pseudo-header takes the datagram's
\* source and destination.
ReadMessage(d) == [d.pkt EXCEPT !.saddr = d.src, !.daddr = d.dst]

\* IPv6VRRPMsgCon.ReadMessage(): Daddr is given cm.Src and Saddr cm.Dst.
ReadMessageIPv6(d) == [d.pkt EXCEPT !.daddr = d.src, !.saddr = d.dst]

\* r.vrrpConn.ReadMessage(): the connection is that of the router's family.
vrrpConnReadMessage(v, d) ==
    IF v.ipvX = IPv4 THEN ReadMessage(d) ELSE ReadMessageIPv6(d)

---------------------------------------------------------------------------
(* The state machine: one action per branch of stateMachine()              *)

Observe(ev, sent, announce, trans) ==
    [ev |-> ev, prio |-> -1, sent |-> sent, announce |-> announce,
     trans |-> trans, called |-> <<>>]

\* An announcer that sends nothing.
AnnounceNone(v) == {}

\* r.addrAnnouncer.AnnounceAll(r): a gratuitous ARP for each protected
\* address; the result is the set of addresses announced.
AnnounceAll(v) == v.protectedIPaddrs

\* A notification that runs every registered handler.
stateChangedAll(v, t) ==
    LET S == {u \in Transitions : v.transitionHandler[u] # NoHandler}
        F[T \in SUBSET S] ==
            IF T = {} THEN <<>>
            ELSE LET u == CHOOSE x \in T : TRUE
                 IN  <<[handler |-> v.transitionHandler[u], transition |-> u,
                        state |-> v.state]>> \o F[T \ {u}]
    IN  F[S]

\* r.stateChanged(t): the handler registered for t, if there is one, is
\* called with the router as it is at the call.  The result is the list of
\* the calls made.
stateChanged(v, t) ==
    IF v.transitionHandler[t] # NoHandler
    THEN <<[handler |-> v.transitionHandler[t], transition |-> t,
            state |-> v.state]>>
    ELSE <<>>

NoObs == Observe("none", <<>>, <<>>, "none")

\* No packet is on its way through the codec.
NoCodec == [pc |-> "none"]

Running(r) == sm[r] = "running"

\* A start-up test that looks at the owner flag alone.
IsFlaggedOwner(v) == v.owner

\* The start-up test of the INIT branch.
IsOwner(v) == v.priority = 255 \/ v.owner

\* INIT, event START.  The reader goroutine is spawned before the state is
\* stored; `early` is the outcome in which its first look at r.state still
\* sees INIT, so that it returns at once.
InitStart(r) ==
    /\ Running(r)
    /\ vr[r].state = INIT
    /\ eventChannel[r] # <<>>
    /\ Head(eventChannel[r]) = START
    /\ eventChannel' = [eventChannel EXCEPT ![r] = Tail(@)]
    /\ \E early \in BOOLEAN :
          daemon' = [daemon EXCEPT ![r].check = IF early THEN @ ELSE @ + 1]
    /\ LET v == vr[r] IN
       IF IsOwner(v)
       THEN /\ wire' = WriteMessage(wire, r, assembleVRRPPacket(v))
            /\ UNCHANGED masterDownTimer
            /\ IF TickerPanics(v)
               THEN /\ sm' = [sm EXCEPT ![r] = "panicked"]
                    /\ closed' = [closed EXCEPT ![r] = close(@)]
                    /\ UNCHANGED <<vr, advertisementTicker>>
                    /\ obs' = [obs EXCEPT ![r] =
                          Observe("START", <<assembleVRRPPacket(v)>>,
                                  <<AnnounceAll(v)>>, "none")]
               ELSE /\ advertisementTicker' =
                          [advertisementTicker EXCEPT ![r] = makeAdvertTicker(v)]
                    /\ vr' = [vr EXCEPT ![r].state = MASTER]
                    /\ obs' = [obs EXCEPT ![r] =
                          [Observe("START", <<assembleVRRPPacket(v)>>,
                                   <<AnnounceAll(v)>>, "Init2Master")
                              EXCEPT !.called =
                                  stateChanged([v EXCEPT !.state = MASTER],
                                               "Init2Master")]]
                    /\ UNCHANGED <<sm, closed>>
       ELSE LET v1 == setMasterAdvInterval(v, v.advertisementIntervalOfMaster) IN
            /\ masterDownTimer' = [masterDownTimer EXCEPT ![r] =
                                      makeMasterDownTimer(v1, @)]
            /\ vr' = [vr EXCEPT ![r] = [v1 EXCEPT !.state = BACKUP]]
            /\ obs' = [obs EXCEPT ![r] =
                          [Observe("START", <<>>, <<>>, "Init2Backup")
                              EXCEPT !.called =
                                  stateChanged([v1 EXCEPT !.state = BACKUP],
                                               "Init2Backup")]]
            /\ UNCHANGED <<wire, advertisementTicker, sm, closed>>
    /\ UNCHANGED <<packetQueue, pending, stopPc, starts, net>>
    /\ UNCHANGED codec

\* INIT, event SHUTDOWN: the loop returns and the deferred r.close() runs.
InitShutdown(r) ==
    /\ Running(r)
    /\ vr[r].state = INIT
    /\ eventChannel[r] # <<>>
    /\ Head(eventChannel[r]) = SHUTDOWN
    /\ eventChannel' = [eventChannel EXCEPT ![r] = Tail(@)]
    /\ sm' = [sm EXCEPT ![r] = "returned"]
    /\ closed' = [closed EXCEPT ![r] = close(@)]
    /\ wire' = [wire EXCEPT ![r] = <<>>]
    /\ obs' = [obs EXCEPT ![r] = Observe("SHUTDOWN", <<>>, <<>>, "none")]
    /\ UNCHANGED <<vr, advertisementTicker, masterDownTimer, packetQueue,
                   daemon, pending, stopPc, starts, net>>
    /\ UNCHANGED codec

\* MASTER, an event: SHUTDOWN resigns with a priority-0 advertisement; any
\* other event is consumed and ignored.
MasterEvent(r) ==
    /\ Running(r)
    /\ vr[r].state = MASTER
    /\ eventChannel[r] # <<>>
    /\ eventChannel' = [eventChannel EXCEPT ![r] = Tail(@)]
    /\ IF Head(eventChannel[r]) = SHUTDOWN
       THEN LET v  == vr[r]
                v0 == setPriority(v, 0)
                v1 == setPriority(v0, v.priority)
            IN  /\ advertisementTicker' =
                      [advertisementTicker EXCEPT ![r] = stopAdvertTicker(@)]
                /\ wire' = WriteMessage(wire, r, assembleVRRPPacket(v0))
                /\ vr' = [vr EXCEPT ![r] = [v1 EXCEPT !.state = INIT]]
                /\ obs' = [obs EXCEPT ![r] =
                      [Observe("SHUTDOWN", <<assembleVRRPPacket(v0)>>, <<>>,
                               "Master2Init")
                          EXCEPT !.called =
                              stateChanged([v1 EXCEPT !.state = INIT],
                                           "Master2Init")]]
       ELSE /\ obs' = [obs EXCEPT ![r] = Observe("ignored", <<>>, <<>>, "none")]
            /\ UNCHANGED <<vr, advertisementTicker, wire>>
    /\ UNCHANGED <<masterDownTimer, packetQueue, daemon, sm, pending, stopPc,
                   closed, starts, net>>
    /\ UNCHANGED codec

\* MASTER, the advertisement ticker fired.
MasterTicker(r) ==
    /\ Running(r)
    /\ vr[r].state = MASTER
    /\ advertisementTicker[r].C = 1
    /\ advertisementTicker' = [advertisementTicker EXCEPT ![r].C = 0]
    /\ wire' = WriteMessage(wire, r, assembleVRRPPacket(vr[r]))
    /\ obs' = [obs EXCEPT ![r] =
          Observe("ticker", <<assembleVRRPPacket(vr[r])>>, <<>>, "none")]
    /\ UNCHANGED <<vr, masterDownTimer, eventChannel, packetQueue, daemon, sm,
                   pending, stopPc, closed, starts, net>>
    /\ UNCHANGED codec

\* A comparison in which an equal priority always wins.
OutranksOnTies(packet, v) == packet.priority >= v.priority

\* A comparison in which a resigning sender wins as well.
OutranksOrResigns(packet, v) ==
    \/ packet.priority = 0
    \/ packet.priority > v.priority
    \/ /\ packet.priority = v.priority
       /\ largerThan(packet.saddr, v.preferredSourceIP)

\* The test both packet branches share.
Outranks(packet, v) ==
    \/ packet.priority > v.priority
    \/ /\ packet.priority = v.priority
       /\ largerThan(packet.saddr, v.preferredSourceIP)

\* MASTER, a received advertisement.
MasterPacket(r) ==
    /\ Running(r)
    /\ vr[r].state = MASTER
    /\ packetQueue[r] # <<>>
    /\ packetQueue' = [packetQueue EXCEPT ![r] = Tail(@)]
    /\ LET packet == Head(packetQueue[r])
           v == vr[r]
       IN  IF Outranks(packet, v)
           THEN LET v1 == setMasterAdvInterval(v, packet.maxAdvInt) IN
                /\ advertisementTicker' =
                      [advertisementTicker EXCEPT ![r] = stopAdvertTicker(@)]
                /\ masterDownTimer' = [masterDownTimer EXCEPT ![r] =
                                          makeMasterDownTimer(v1, @)]
                /\ vr' = [vr EXCEPT ![r] = [v1 EXCEPT !.state = BACKUP]]
                /\ obs' = [obs EXCEPT ![r] =
                      [Observe("packet", <<>>, <<>>, "Master2Backup")
                          EXCEPT !.prio = packet.priority,
                                 !.called =
                                     stateChanged([v1 EXCEPT !.state = BACKUP],
                                                  "Master2Backup")]]
           ELSE /\ obs' = [obs EXCEPT ![r] =
                      [Observe("packet", <<>>, <<>>, "none")
                          EXCEPT !.prio = packet.priority]]
                /\ UNCHANGED <<vr, advertisementTicker, masterDownTimer>>
    /\ UNCHANGED <<eventChannel, wire, daemon, sm, pending, stopPc, closed,
                   starts, net>>
    /\ UNCHANGED codec

\* BACKUP, an event: SHUTDOWN stops the master-down timer; any other event
\* is consumed and ignored.
BackupEvent(r) ==
    /\ Running(r)
    /\ vr[r].state = BACKUP
    /\ eventChannel[r] # <<>>
    /\ eventChannel' = [eventChannel EXCEPT ![r] = Tail(@)]
    /\ IF Head(eventChannel[r]) = SHUTDOWN
       THEN /\ masterDownTimer' = [masterDownTimer EXCEPT ![r] =
                                      stopMasterDownTimer(@)]
            /\ vr' = [vr EXCEPT ![r].state = INIT]
            /\ obs' = [obs EXCEPT ![r] =
                  [Observe("SHUTDOWN", <<>>, <<>>, "Backup2Init")
                      EXCEPT !.called =
                          stateChanged([vr[r] EXCEPT !.state = INIT],
                                       "Backup2Init")]]
       ELSE /\ obs' = [obs EXCEPT ![r] = Observe("ignored", <<>>, <<>>, "none")]
            /\ UNCHANGED <<vr, masterDownTimer>>
    /\ UNCHANGED <<advertisementTicker, packetQueue, wire, daemon, sm, pending,
                   stopPc, closed, starts, net>>
    /\ UNCHANGED codec

\* A Backup that defers to every advertisement, whatever its priority.
DefersToAny(packet, v) == TRUE

\* The test of the BACKUP packet branch for a non-zero priority.
Defers(packet, v) == v.preempt = FALSE \/ Outranks(packet, v)

\* BACKUP, a received advertisement.
BackupPacket(r) ==
    /\ Running(r)
    /\ vr[r].state = BACKUP
    /\ packetQueue[r] # <<>>
    /\ packetQueue' = [packetQueue EXCEPT ![r] = Tail(@)]
    /\ LET packet == Head(packetQueue[r])
           v == vr[r]
       IN  IF packet.priority = 0
           THEN /\ masterDownTimer' = [masterDownTimer EXCEPT ![r] =
                                          resetMasterDownTimerToSkewTime(v, @)]
                /\ UNCHANGED vr
           ELSE IF Defers(packet, v)
           THEN LET v1 == setMasterAdvInterval(v, packet.maxAdvInt) IN
                /\ masterDownTimer' = [masterDownTimer EXCEPT ![r] =
                                          resetMasterDownTimer(v1, @)]
                /\ vr' = [vr EXCEPT ![r] = v1]
           ELSE UNCHANGED <<vr, masterDownTimer>>
    /\ obs' = [obs EXCEPT ![r] =
          [Observe("packet", <<>>, <<>>, "none")
              EXCEPT !.prio = Head(packetQueue[r]).priority]]
    /\ UNCHANGED <<advertisementTicker, eventChannel, wire, daemon, sm,
                   pending, stopPc, closed, starts, net>>
    /\ UNCHANGED codec

\* BACKUP, the master-down timer fired.
BackupMasterDown(r) ==
    /\ Running(r)
    /\ vr[r].state = BACKUP
    /\ masterDownTimer[r].C = 1
    /\ masterDownTimer' = [masterDownTimer EXCEPT ![r].C = 0]
    /\ wire' = WriteMessage(wire, r, assembleVRRPPacket(vr[r]))
    /\ LET v == vr[r] IN
       IF TickerPanics(v)
       THEN /\ sm' = [sm EXCEPT ![r] = "panicked"]
            /\ closed' = [closed EXCEPT ![r] = close(@)]
            /\ obs' = [obs EXCEPT ![r] =
                  Observe("mdtimer", <<assembleVRRPPacket(v)>>,
                          <<AnnounceAll(v)>>, "none")]
            /\ UNCHANGED <<vr, advertisementTicker>>
       ELSE /\ advertisementTicker' =
                  [advertisementTicker EXCEPT ![r] = makeAdvertTicker(v)]
            /\ vr' = [vr EXCEPT ![r].state = MASTER]
            /\ obs' = [obs EXCEPT ![r] =
                  [Observe("mdtimer", <<assembleVRRPPacket(v)>>,
                           <<AnnounceAll(v)>>, "Backup2Master")
                      EXCEPT !.called =
                          stateChanged([v EXCEPT !.state = MASTER],
                                       "Backup2Master")]]
            /\ UNCHANGED <<sm, closed>>
    /\ UNCHANGED <<eventChannel, packetQueue, daemon, pending, stopPc, starts,
                   net>>
    /\ UNCHANGED codec

---------------------------------------------------------------------------
(* The goroutines around the state machine                                 *)

\* A goroutine blocked in  r.eventChannel <- e  completes its send.
ChanSend(r) ==
    /\ Len(eventChannel[r]) < EVENT_CHANNEL_SIZE
    /\ \E e \in {START, SHUTDOWN} :
          /\ pending[r][e] > 0
          /\ pending' = [pending EXCEPT ![r][e] = @ - 1]
          /\ eventChannel' = [eventChannel EXCEPT ![r] = Append(@, e)]
    /\ UNCHANGED <<vr, advertisementTicker, masterDownTimer, packetQueue, wire,
                   daemon, sm, stopPc, closed, starts, net, obs>>
    /\ UNCHANGED codec

\* fetchVRRPDaemon, top of the loop: return when the router is in INIT.
DaemonCheck(r) ==
    /\ daemon[r].check > 0
    /\ daemon' = [daemon EXCEPT
                     ![r].check = @ - 1,
                     ![r].read = IF vr[r].state = INIT THEN @ ELSE @ + 1]
    /\ UNCHANGED <<vr, advertisementTicker, masterDownTimer, eventChannel,
                   packetQueue, wire, sm, pending, stopPc, closed, starts, net,
                   obs>>
    /\ UNCHANGED codec

\* A send that puts the packet in front of those waiting.
chansendFront(q, packet) == <<packet>> \o q

\* r.packetQueue <- packet: the packet joins the buffered channel's queue.
chansend(q, packet) == Append(q, packet)

\* fetchVRRPDaemon, ReadMessage and what follows it: an error ends the
\* goroutine, a foreign VRID is skipped, anything else is queued.  (The
\* queue of 512 is never full within the bounds of the model, so the read
\* and the send to the queue are one step.)
DaemonRead(r) ==
    /\ daemon[r].read > 0
    /\ IF closed[r] > 0
       THEN /\ daemon' = [daemon EXCEPT ![r].read = @ - 1]
            /\ UNCHANGED <<wire, packetQueue>>
       ELSE /\ wire[r] # <<>>
            /\ Len(packetQueue[r]) < PACKET_QUEUE_SIZE
            /\ wire' = [wire EXCEPT ![r] = Tail(@)]
            /\ LET d == Head(wire[r]) IN
               IF ~ReadMessageOK(d)
               THEN /\ daemon' = [daemon EXCEPT ![r].read = @ - 1]
                    /\ UNCHANGED packetQueue
               ELSE /\ daemon' = [daemon EXCEPT ![r].read = @ - 1,
                                                ![r].check = @ + 1]
                    /\ packetQueue' =
                          IF vr[r].vrID # vrrpConnReadMessage(vr[r], d).vrid
                          THEN packetQueue
                          ELSE [packetQueue EXCEPT
                                   ![r] = chansend(@,
                                       vrrpConnReadMessage(vr[r], d))]
    /\ UNCHANGED <<vr, advertisementTicker, masterDownTimer, eventChannel, sm,
                   pending, stopPc, closed, starts, net, obs>>
    /\ UNCHANGED codec

\* The runtime delivers an expired master-down timer to its channel, the
\* send following the expiry at once.
MasterDownTimerFire(r) ==
    /\ masterDownTimer[r].armed
    /\ masterDownTimer[r].remaining = 0
    /\ ~masterDownTimer[r].sending
    /\ masterDownTimer' = [masterDownTimer EXCEPT ![r].armed = FALSE,
                                                  ![r].d = 0, ![r].C = 1]
    /\ UNCHANGED <<vr, advertisementTicker, eventChannel, packetQueue, wire,
                   daemon, sm, pending, stopPc, closed, starts, net, obs>>
    /\ UNCHANGED codec

\* The runtime delivers a tick (dropped when the slot is taken) and starts
\* the next period.
TickerFire(r) ==
    /\ advertisementTicker[r].running
    /\ advertisementTicker[r].remaining = 0
    /\ advertisementTicker' = [advertisementTicker EXCEPT
                                  ![r].C = 1,
                                  ![r].remaining = advertisementTicker[r].period]
    /\ UNCHANGED <<vr, masterDownTimer, eventChannel, packetQueue, wire,
                   daemon, sm, pending, stopPc, closed, starts, net, obs>>
    /\ UNCHANGED codec

---------------------------------------------------------------------------
(* The caller's goroutine                                                  *)

\* r.Start(): a goroutine sends START, the caller runs stateMachine().
Start(r) ==
    /\ r \in net
    /\ sm[r] \in {"idle", "returned"}
    /\ starts[r] < MaxStarts
    /\ starts' = [starts EXCEPT ![r] = @ + 1]
    /\ sm' = [sm EXCEPT ![r] = "running"]
    /\ pending' = [pending EXCEPT ![r][START] = @ + 1]
    /\ UNCHANGED <<vr, advertisementTicker, masterDownTimer, eventChannel,
                   packetQueue, wire, daemon, stopPc, closed, net, obs>>
    /\ UNCHANGED codec

ShutdownOutstanding(r) ==
    \/ pending[r][SHUTDOWN] > 0
    \/ \E i \in 1..Len(eventChannel[r]) : eventChannel[r][i] = SHUTDOWN

\* r.Stop(), first half: the state is read; outside INIT the caller itself
\* sends SHUTDOWN, in INIT only the goroutine does.  (The model lets a new
\* Stop() begin once the previous SHUTDOWN has been consumed.)
StopCall(r) ==
    /\ r \in net
    /\ starts[r] > 0
    /\ stopPc[r] = "idle"
    /\ ~ShutdownOutstanding(r)
    /\ IF vr[r].state # INIT
       THEN /\ stopPc' = [stopPc EXCEPT ![r] = "send"]
            /\ UNCHANGED pending
       ELSE /\ pending' = [pending EXCEPT ![r][SHUTDOWN] = @ + 1]
            /\ UNCHANGED stopPc
    /\ UNCHANGED <<vr, advertisementTicker, masterDownTimer, eventChannel,
                   packetQueue, wire, daemon, sm, closed, starts, net, obs>>
    /\ UNCHANGED codec

\* r.Stop(), second half: the caller's own send completes, then the
\* goroutine with the terminating SHUTDOWN is spawned.
StopSend(r) ==
    /\ stopPc[r] = "send"
    /\ Len(eventChannel[r]) < EVENT_CHANNEL_SIZE
    /\ eventChannel' = [eventChannel EXCEPT ![r] = Append(@, SHUTDOWN)]
    /\ pending' = [pending EXCEPT ![r][SHUTDOWN] = @ + 1]
    /\ stopPc' = [stopPc EXCEPT ![r] = "idle"]
    /\ UNCHANGED <<vr, advertisementTicker, masterDownTimer, packetQueue, wire,
                   daemon, sm, closed, starts, net, obs>>
    /\ UNCHANGED codec

---------------------------------------------------------------------------
(* Configuration calls, made before Start()                                *)

ConfigPriorities == {1, 255}
ConfigIntervalsMs == {1000}
VIPs == {<<10, 0, 0, 100>>}

Unstarted(r) == r \in net /\ sm[r] = "idle" /\ starts[r] = 0

CallSetPriorityAndMasterAdvInterval(r) ==
    /\ Unstarted(r)
    /\ \E p \in ConfigPriorities, ms \in ConfigIntervalsMs :
          vr' = [vr EXCEPT ![r] = SetPriorityAndMasterAdvInterval(@, p, ms)]
    /\ UNCHANGED <<advertisementTicker, masterDownTimer, eventChannel,
                   packetQueue, wire, daemon, sm, pending, stopPc, closed,
                   starts, net, obs>>
    /\ UNCHANGED codec

CallSetPreemptMode(r) ==
    /\ Unstarted(r)
    /\ \E flag \in BOOLEAN :
          vr' = [vr EXCEPT ![r] = SetPreemptMode(@, flag)]
    /\ UNCHANGED <<advertisementTicker, masterDownTimer, eventChannel,
                   packetQueue, wire, daemon, sm, pending, stopPc, closed,
                   starts, net, obs>>
    /\ UNCHANGED codec

\* r.AddEventListener(typ, handler): the handler replaces whatever was
\* registered for typ.  (The boolean it returns is not modelled.)
AddEventListener(v, typ, handler) ==
    [v EXCEPT !.transitionHandler[typ] = handler]

\* The prefix of an IPv4 address in its 16-byte form (net.ParseIP and
\* net.IPv4 return that form).
v4InV6Prefix == <<0, 0, 0, 0, 0, 0, 0, 0, 0, 0, 255, 255>>

\* ip.To4(): the 4-byte form of an IPv4 address, nil (<<>>) otherwise.
To4(ip) ==
    IF Len(ip) = 4 THEN ip
    ELSE IF Len(ip) = 16 /\ SubSeq(ip, 1, 12) = v4InV6Prefix
    THEN SubSeq(ip, 13, 16)
    ELSE <<>>

\* ip.To16(): the 16-byte form, nil (<<>>) for any other length.
To16(ip) ==
    IF Len(ip) = 4 THEN v4InV6Prefix \o ip
    ELSE IF Len(ip) = 16 THEN ip
    ELSE <<>>

\* netip.AddrFromSlice(bin): a 4-byte slice is an IPv4 address, a 16-byte
\* slice an IPv6 address (also when it holds a mapped IPv4 address), so
\* the key is the slice as it stands.
AddrFromSlice(bin) == [key |-> bin, ok |-> Len(bin) \in {4, 16}]

\* r.AddIPvXAddr(ip)
AddIPvXAddr(v, ip) ==
    IF (v.ipvX = IPv4 /\ To4(ip) = <<>>) \/ (v.ipvX = IPv6 /\ To16(ip) = <<>>)
    THEN v
    ELSE LET bin == IF v.ipvX = IPv4 THEN To4(ip) ELSE To16(ip) IN
         IF ~AddrFromSlice(bin).ok THEN v
         ELSE [v EXCEPT !.protectedIPaddrs = @ \cup {AddrFromSlice(bin).key}]

\* r.RemoveIPvXAddr(ip): the key is made of ip as it is given.
RemoveIPvXAddr(v, ip) ==
    [v EXCEPT !.protectedIPaddrs = @ \ {AddrFromSlice(ip).key}]

---------------------------------------------------------------------------
(* The environment: foreign peers and the passage of time                  *)

PeerPriorities == {0, 1, 100, 255}
PeerAddrs == {IPLow, IPHigh}
PeerIntervals == {100, 4095}

PeerPacket(p, ip, i, id) ==
    [version |-> VRRPv3, type |-> 1, vrid |-> id, priority |-> p,
     count |-> 1, maxAdvInt |-> i, addrs |-> VIPs, saddr |-> ip,
     daddr |-> IF Len(ip) = 4 THEN VRRPMultiAddrIPv4 ELSE VRRPMultiAddrIPv6]

\* Well-formed advertisements of foreign peers, one with a hop count other
\* than 255 and one of another virtual router.
PeerDatagrams ==
    {[ttl |-> 255, src |-> ip, dst |-> VRRPMultiAddrIPv4, sumOK |-> TRUE,
      pkt |-> PeerPacket(p, ip, i, LocalVRID)] :
        p \in PeerPriorities, ip \in PeerAddrs, i \in PeerIntervals}
    \cup
    {[ttl |-> 64, src |-> IPHigh, dst |-> VRRPMultiAddrIPv4, sumOK |-> TRUE,
      pkt |-> PeerPacket(255, IPHigh, 100, LocalVRID)],
     [ttl |-> 255, src |-> IPHigh, dst |-> VRRPMultiAddrIPv4, sumOK |-> TRUE,
      pkt |-> PeerPacket(255, IPHigh, 100, LocalVRID + 1)]}

\* A foreign peer's datagram reaches the router's socket.  Datagrams that
\* reach a socket no reader is left to read are not followed.
Inject(r) ==
    /\ r \in net
    /\ closed[r] = 0
    /\ daemon[r].check + daemon[r].read > 0
    /\ Len(wire[r]) + Len(packetQueue[r]) < MaxInFlight
    /\ \E d \in PeerDatagrams : wire' = [wire EXCEPT ![r] = Append(@, d)]
    /\ UNCHANGED <<vr, advertisementTicker, masterDownTimer, eventChannel,
                   packetQueue, daemon, sm, pending, stopPc, closed, starts,
                   net, obs>>
    /\ UNCHANGED codec

\* What a router can do without time passing.
StateMachineReady(r) ==
    /\ Running(r)
    /\ \/ eventChannel[r] # <<>>
       \/ /\ vr[r].state = MASTER
          /\ (advertisementTicker[r].C = 1 \/ packetQueue[r] # <<>>)
       \/ /\ vr[r].state = BACKUP
          /\ (masterDownTimer[r].C = 1 \/ packetQueue[r] # <<>>)

TimerDue(r) ==
    \/ masterDownTimer[r].armed /\ masterDownTimer[r].remaining = 0
    \/ masterDownTimer[r].sending
    \/ advertisementTicker[r].running /\ advertisementTicker[r].remaining = 0

GoroutineReady(r) ==
    \/ daemon[r].check > 0
    \/ daemon[r].read > 0 /\ (closed[r] > 0 \/ wire[r] # <<>>)
    \/ /\ Len(eventChannel[r]) < EVENT_CHANNEL_SIZE
       /\ (stopPc[r] = "send" \/ \E e \in {START, SHUTDOWN} : pending[r][e] > 0)

Urgent == \E r \in Routers :
    StateMachineReady(r) \/ TimerDue(r) \/ GoroutineReady(r)

Deadlines ==
    {masterDownTimer[r].remaining : r \in {q \in Routers : masterDownTimer[q].armed}}
    \cup
    {advertisementTicker[r].remaining :
        r \in {q \in Routers : advertisementTicker[q].running}}

AllFresh ==
    \A r \in Routers :
        /\ masterDownTimer[r].armed =>
              masterDownTimer[r].remaining = masterDownTimer[r].d
        /\ advertisementTicker[r].running =>
              advertisementTicker[r].remaining = advertisementTicker[r].period

\* Time passes, up to the next deadline, once nothing is left to do at the
\* present instant (handlers take no time).  From freshly armed timers it
\* may also stop half-way.
Advance(d) ==
    /\ masterDownTimer' =
          [r \in Routers |->
              IF masterDownTimer[r].armed
              THEN [masterDownTimer[r] EXCEPT !.remaining = @ - d]
              ELSE masterDownTimer[r]]
    /\ advertisementTicker' =
          [r \in Routers |->
              IF advertisementTicker[r].running
              THEN [advertisementTicker[r] EXCEPT !.remaining = @ - d]
              ELSE advertisementTicker[r]]

Tick ==
    /\ ~Urgent
    /\ Deadlines # {}
    /\ \E d \in {Min(Deadlines)}
                \cup (IF AllFresh /\ Min(Deadlines) >= 2
                      THEN {Min(Deadlines) \div 2} ELSE {}) :
          Advance(d)
    /\ UNCHANGED <<vr, eventChannel, packetQueue, wire, daemon, sm, pending,
                   stopPc, closed, starts, net, obs>>
    /\ UNCHANGED codec

---------------------------------------------------------------------------
(* One router and its environment                                          *)

InitCommon ==
    /\ advertisementTicker = [r \in Routers |-> NilTicker]
    /\ masterDownTimer = [r \in Routers |-> NilTimer]
    /\ eventChannel = [r \in Routers |-> <<>>]
    /\ packetQueue = [r \in Routers |-> <<>>]
    /\ wire = [r \in Routers |-> <<>>]
    /\ daemon = [r \in Routers |-> [check |-> 0, read |-> 0]]
    /\ sm = [r \in Routers |-> "idle"]
    /\ pending = [r \in Routers |-> [e \in {START, SHUTDOWN} |-> 0]]
    /\ stopPc = [r \in Routers |-> "idle"]
    /\ closed = [r \in Routers |-> 0]
    /\ starts = [r \in Routers |-> 0]
    /\ obs = [r \in Routers |-> NoObs]
    /\ codec = NoCodec

\* A router as NewVirtualRouter leaves it, with its virtual address added.
Constructed(r, Owner) ==
    AddIPvXAddr(NewVirtualRouter(LocalVRID, InterfaceIP[r], Owner),
                CHOOSE ip \in VIPs : TRUE)

\* Router A, alone on its segment.
Init ==
    /\ InitCommon
    /\ net = {"A"}
    /\ \E Owner \in BOOLEAN :
          vr = [r \in Routers |->
                   Constructed(r, IF r = "A" THEN Owner ELSE FALSE)]

StateMachine(r) ==
    \/ InitStart(r)
    \/ InitShutdown(r)
    \/ MasterEvent(r)
    \/ MasterTicker(r)
    \/ MasterPacket(r)
    \/ BackupEvent(r)
    \/ BackupPacket(r)
    \/ BackupMasterDown(r)

Next ==
    \/ \E r \in Routers : InitStart(r)
    \/ \E r \in Routers : InitShutdown(r)
    \/ \E r \in Routers : MasterEvent(r)
    \/ \E r \in Routers : MasterTicker(r)
    \/ \E r \in Routers : MasterPacket(r)
    \/ \E r \in Routers : BackupEvent(r)
    \/ \E r \in Routers : BackupPacket(r)
    \/ \E r \in Routers : BackupMasterDown(r)
    \/ \E r \in Routers : ChanSend(r)
    \/ \E r \in Routers : DaemonCheck(r)
    \/ \E r \in Routers : DaemonRead(r)
    \/ \E r \in Routers : MasterDownTimerFire(r)
    \/ \E r \in Routers : TickerFire(r)
    \/ \E r \in Routers : Start(r)
    \/ \E r \in Routers : StopCall(r)
    \/ \E r \in Routers : StopSend(r)
    \/ \E r \in Routers : CallSetPriorityAndMasterAdvInterval(r)
    \/ \E r \in Routers : CallSetPreemptMode(r)
    \/ \E r \in Routers : Inject(r)
    \/ Tick

Spec == Init /\ [][Next]_vars

---------------------------------------------------------------------------
(* Properties of the state machine                                         *)

\* An IPv4 address as the number it denotes.
IPValue(ip) == ((ip[1] * 256 + ip[2]) * 256 + ip[3]) * 256 + ip[4]

\* The step in which r's state machine takes the packet at the head of its
\* queue, the event in its event channel, or the expiry of its timer.
TakesPacket(r) ==
    packetQueue[r] # <<>> /\ packetQueue'[r] = Tail(packetQueue[r])

TakesEvent(r, e) ==
    /\ eventChannel[r] # <<>>
    /\ Head(eventChannel[r]) = e
    /\ eventChannel'[r] = Tail(eventChannel[r])

TakesExpiry(r) ==
    /\ masterDownTimer[r].C = 1
    /\ masterDownTimer'[r].C = 0
    /\ eventChannel'[r] = eventChannel[r]
    /\ packetQueue'[r] = packetQueue[r]

\* P has the higher priority, or the same priority and the larger address.
Supersedes(P, own) ==
    \/ P.priority > own.priority
    \/ /\ P.priority = own.priority
       /\ IPValue(P.saddr) > IPValue(own.preferredSourceIP)

C1_Effect(r) ==
    LET P == Head(packetQueue[r])
        own == vr[r]
    IN  IF Supersedes(P, own)
        THEN /\ ~advertisementTicker'[r].running
             /\ vr'[r].advertisementIntervalOfMaster = P.maxAdvInt
             /\ masterDownTimer'[r].armed
             /\ vr'[r].state = BACKUP
        ELSE /\ vr'[r] = vr[r]
             /\ advertisementTicker'[r] = advertisementTicker[r]
             /\ masterDownTimer'[r] = masterDownTimer[r]

C2_Effect(r, ms) ==
    LET P == Head(packetQueue[r])
        own == vr[r]
    IN  IF own.preempt = FALSE \/ Supersedes(P, own)
        THEN /\ vr'[r].advertisementIntervalOfMaster = P.maxAdvInt
             /\ masterDownTimer'[r].armed
             /\ masterDownTimer'[r].remaining = ms
             /\ vr'[r].state = BACKUP
        ELSE /\ vr'[r] = vr[r]
             /\ masterDownTimer'[r] = masterDownTimer[r]

\* C2: a Backup that receives an advertisement of non-zero priority adopts
\* the sender's interval and re-arms the master-down timer to the
\* master-down interval (centiseconds, 10 ms each) exactly when preempt is
\* off or the sender supersedes it; otherwise it changes nothing.  It stays
\* Backup either way.
C2_BackupAdvertisement ==
    [][\A r \in Routers :
          (/\ vr[r].state = BACKUP
           /\ TakesPacket(r)
           /\ Head(packetQueue[r]).priority # 0)
          => C2_Effect(r, 10 * vr'[r].masterDownInterval)]_vars

\* The same with the duration as the code converts it.
C2_AsConverted ==
    [][\A r \in Routers :
          (/\ vr[r].state = BACKUP
           /\ TakesPacket(r)
           /\ Head(packetQueue[r]).priority # 0)
          => C2_Effect(r, DurationMs(vr'[r].masterDownInterval))]_vars

C2_Witness ==
    \E r \in Routers :
        /\ vr[r].state = BACKUP
        /\ obs[r].ev = "packet"
        /\ vr[r].advertisementIntervalOfMaster = 4095
        /\ masterDownTimer[r].armed
        /\ masterDownTimer[r].remaining # 10 * vr[r].masterDownInterval

\* C3: a Backup whose master-down timer expires emits one advertisement,
\* announces its addresses, starts the ticker and becomes Master; nothing
\* else takes a Backup to Master.
C3_MasterDownExpiry ==
    [][\A r \in Routers :
          /\ (Running(r) /\ vr[r].state = BACKUP /\ TakesExpiry(r))
             => /\ obs'[r].sent = <<assembleVRRPPacket(vr[r])>>
                /\ obs'[r].sent[1].priority = vr[r].priority
                /\ obs'[r].announce = <<vr[r].protectedIPaddrs>>
                /\ advertisementTicker'[r].running
                /\ vr'[r].state = MASTER
          /\ (vr[r].state = BACKUP /\ vr'[r].state = MASTER)
             => (Running(r) /\ TakesExpiry(r))]_vars

C3_Witness ==
    \E r \in Routers :
        /\ obs[r].trans = "Backup2Master"
        /\ vr[r].state = MASTER
        /\ Len(obs[r].sent) = 1
        /\ obs[r].announce = <<VIPs>>
        /\ advertisementTicker[r].running

\* C4: START in Initialize makes an owner (priority 255 or owner flag) emit
\* exactly one advertisement, announce, start the ticker and become Master;
\* any other router arms the master-down timer and becomes Backup without
\* sending.
C4_Start ==
    [][\A r \in Routers :
          (vr[r].state = INIT /\ TakesEvent(r, START))
          => IF vr[r].priority = 255 \/ vr[r].owner
             THEN /\ obs'[r].sent = <<assembleVRRPPacket(vr[r])>>
                  /\ obs'[r].announce = <<vr[r].protectedIPaddrs>>
                  /\ advertisementTicker'[r].running
                  /\ vr'[r].state = MASTER
                  /\ masterDownTimer'[r] = masterDownTimer[r]
             ELSE /\ obs'[r].sent = <<>>
                  /\ obs'[r].announce = <<>>
                  /\ wire' = wire
                  /\ masterDownTimer'[r].armed
                  /\ vr'[r].state = BACKUP
                  /\ advertisementTicker'[r] = advertisementTicker[r]]_vars

C4_Witness ==
    /\ vr["A"].state = BACKUP
    /\ obs["A"].trans = "Init2Backup"
    /\ vr["A"].priority = 1
    /\ masterDownTimer["A"].armed

C4_WitnessOwner ==
    /\ vr["A"].state = MASTER
    /\ obs["A"].trans = "Init2Master"
    /\ vr["A"].owner
    /\ vr["A"].priority = 1
    /\ Len(obs["A"].sent) = 1

C7_MasterIgnoresResignation ==
    [][\A r \in Routers :
          (/\ vr[r].state = MASTER
           /\ TakesPacket(r)
           /\ Head(packetQueue[r]).priority = 0)
          => /\ vr[r].priority \in 1..255
             /\ vr'[r].state = MASTER
             /\ advertisementTicker'[r].running
             /\ advertisementTicker'[r] = advertisementTicker[r]
             /\ vr'[r].advertisementIntervalOfMaster =
                   vr[r].advertisementIntervalOfMaster]_vars

\* A Master has just taken an advertisement of priority 0 from its queue.
C7_Witness ==
    \E r \in Routers :
        /\ vr[r].state = MASTER
        /\ obs[r].ev = "packet"
        /\ obs[r].prio = 0
        /\ advertisementTicker[r].running

C8_Witness ==
    \E r \in Routers :
        /\ obs[r].trans = "Backup2Init"
        /\ vr[r].state = INIT
        /\ masterDownTimer[r].made
        /\ ~masterDownTimer[r].armed
        /\ sm[r] = "running"

---------------------------------------------------------------------------
(* A resigning Master: the router under fair scheduling                    *)

\* A peer at the larger address that advertises, or resigns with priority 0.
ResignDatagrams ==
    {d \in PeerDatagrams :
        /\ d.ttl = VRRPMultiTTL
        /\ d.pkt.vrid = LocalVRID
        /\ d.src = IPHigh
        /\ d.pkt.maxAdvInt = 100
        /\ d.pkt.priority \in {0, 255}}

InjectResign(r) ==
    /\ r \in net
    /\ closed[r] = 0
    /\ daemon[r].check + daemon[r].read > 0
    /\ Len(wire[r]) + Len(packetQueue[r]) < MaxInFlight
    /\ \E d \in ResignDatagrams : wire' = [wire EXCEPT ![r] = Append(@, d)]
    /\ UNCHANGED <<vr, advertisementTicker, masterDownTimer, eventChannel,
                   packetQueue, daemon, sm, pending, stopPc, closed, starts,
                   net, obs>>
    /\ UNCHANGED codec

InitResign ==
    /\ InitCommon
    /\ net = {"A"}
    /\ \E Owner \in BOOLEAN, flag \in BOOLEAN :
          vr = [r \in Routers |->
                   SetPreemptMode(
                       Constructed(r, IF r = "A" THEN Owner ELSE FALSE), flag)]

NextResign ==
    \/ \E r \in Routers : InitStart(r)
    \/ \E r \in Routers : InitShutdown(r)
    \/ \E r \in Routers : MasterEvent(r)
    \/ \E r \in Routers : MasterTicker(r)
    \/ \E r \in Routers : MasterPacket(r)
    \/ \E r \in Routers : BackupEvent(r)
    \/ \E r \in Routers : BackupPacket(r)
    \/ \E r \in Routers : BackupMasterDown(r)
    \/ \E r \in Routers : ChanSend(r)
    \/ \E r \in Routers : DaemonCheck(r)
    \/ \E r \in Routers : DaemonRead(r)
    \/ \E r \in Routers : MasterDownTimerFire(r)
    \/ \E r \in Routers : TickerFire(r)
    \/ \E r \in Routers : Start(r)
    \/ \E r \in Routers : StopCall(r)
    \/ \E r \in Routers : StopSend(r)
    \/ \E r \in Routers : InjectResign(r)
    \/ Tick

\* The scheduler runs every goroutine that can take a step, the runtime
\* delivers expired timers, and time passes.
Scheduling ==
    /\ WF_vars(Tick)
    /\ \A r \in Routers :
          /\ WF_vars(StateMachine(r))
          /\ WF_vars(ChanSend(r))
          /\ WF_vars(StopSend(r))
          /\ WF_vars(DaemonCheck(r))
          /\ WF_vars(DaemonRead(r))
          /\ WF_vars(MasterDownTimerFire(r))
          /\ WF_vars(TickerFire(r))

SpecResign == InitResign /\ [][NextResign]_vars /\ Scheduling

\* The last thing r's state machine did, as a Backup, was to take an
\* advertisement of priority 0.
Resigned(r) ==
    /\ Running(r)
    /\ vr[r].state = BACKUP
    /\ obs[r].ev = "packet"
    /\ obs[r].prio = 0

\* Another advertisement or an event is on its way to the state machine.
Disturbed(r) ==
    \/ wire[r] # <<>>
    \/ packetQueue[r] # <<>>
    \/ eventChannel[r] # <<>>
    \/ stopPc[r] # "idle"
    \/ \E e \in {START, SHUTDOWN} : pending[r][e] > 0

C6_Rearm ==
    [][\A r \in Routers :
          (/\ vr[r].state = BACKUP
           /\ TakesPacket(r)
           /\ Head(packetQueue[r]).priority = 0)
          => /\ masterDownTimer'[r].armed
             /\ masterDownTimer'[r].remaining = 10 * vr[r].skewTime
             /\ vr'[r] = vr[r]
             /\ advertisementTicker'[r] = advertisementTicker[r]]_vars

C6_Elects ==
    \A r \in Routers :
        Resigned(r) ~> (vr[r].state = MASTER \/ Disturbed(r))

\* C6: a Backup that receives an advertisement of priority 0 re-arms its
\* master-down timer to the skew time (centiseconds, 10 ms each), not to
\* the master-down interval, and stays Backup; unless another advertisement
\* or event reaches it first, it then becomes Master.
C6_Resignation == C6_Rearm /\ C6_Elects

C6_Witness ==
    \E r \in Routers :
        /\ Resigned(r)
        /\ masterDownTimer[r].armed
        /\ masterDownTimer[r].remaining = 10 * vr[r].skewTime
        /\ masterDownTimer[r].remaining # 10 * vr[r].masterDownInterval
        /\ ~Disturbed(r)

---------------------------------------------------------------------------
(* Two routers on one segment (scenarios S2 and S3)                        *)

\* Both routers constructed with the library's defaults, given the
\* priorities pa and pb and the default interval, and started at the same
\* instant: each Start() has spawned the goroutine that sends START and
\* has entered stateMachine().
InitPair(pa, pb) ==
    /\ advertisementTicker = [r \in Routers |-> NilTicker]
    /\ masterDownTimer = [r \in Routers |-> NilTimer]
    /\ eventChannel = [r \in Routers |-> <<>>]
    /\ packetQueue = [r \in Routers |-> <<>>]
    /\ wire = [r \in Routers |-> <<>>]
    /\ daemon = [r \in Routers |-> [check |-> 0, read |-> 0]]
    /\ sm = [r \in Routers |-> "running"]
    /\ pending = [r \in Routers |->
                     [e \in {START, SHUTDOWN} |-> IF e = START THEN 1 ELSE 0]]
    /\ stopPc = [r \in Routers |-> "idle"]
    /\ closed = [r \in Routers |-> 0]
    /\ starts = [r \in Routers |-> 1]
    /\ obs = [r \in Routers |-> NoObs]
    /\ net = Routers
    /\ vr = [r \in Routers |->
                SetPriorityAndMasterAdvInterval(
                    Constructed(r, FALSE),
                    IF r = "A" THEN pa ELSE pb,
                    defaultAdvertisementInterval * 10)]
    /\ codec = NoCodec

NextPair ==
    \/ \E r \in Routers : InitStart(r)
    \/ \E r \in Routers : MasterTicker(r)
    \/ \E r \in Routers : MasterPacket(r)
    \/ \E r \in Routers : BackupPacket(r)
    \/ \E r \in Routers : BackupMasterDown(r)
    \/ \E r \in Routers : ChanSend(r)
    \/ \E r \in Routers : DaemonCheck(r)
    \/ \E r \in Routers : DaemonRead(r)
    \/ \E r \in Routers : MasterDownTimerFire(r)
    \/ \E r \in Routers : TickerFire(r)
    \/ Tick

\* S2: A has priority 150, B has priority 100.
InitS2 == InitPair(150, 100)
SpecS2 == InitS2 /\ [][NextPair]_vars /\ Scheduling

\* S3: A and B both have priority 100.
InitS3 == InitPair(100, 100)
SpecS3 == InitS3 /\ [][NextPair]_vars /\ Scheduling

\* C9: in S2, A becomes Master and B, hearing A's advertisements, never
\* becomes Master.
C9_S2Election ==
    /\ <>(vr["A"].state = MASTER)
    /\ [](vr["B"].state # MASTER)

\* B has become Master although A is Master and advertising.
C9_BothMaster ==
    /\ vr["A"].state = MASTER
    /\ advertisementTicker["A"].running
    /\ vr["B"].state = MASTER
    /\ obs["B"].trans = "Backup2Master"

\* C10: in S3 the system reaches, and stays in, the configuration in which
\* B is Master and A is Backup.
C10_S3Tiebreak ==
    <>[](vr["B"].state = MASTER /\ vr["A"].state = BACKUP)

\* Both routers are Master and have advertised from their tickers, and A
\* has no reader left to hear B.
C10_TwoMastersPersist ==
    /\ \A r \in Routers :
          /\ vr[r].state = MASTER
          /\ advertisementTicker[r].running
          /\ obs[r].ev = "ticker"
    /\ daemon["A"].check + daemon["A"].read = 0

---------------------------------------------------------------------------
(* A router that starts beside a sitting Master (preemption, scenario S5)  *)

\* A (priority pa) has been started alone; B (priority pb, preempt mode
\* `flag`) is constructed on the same segment and not started yet.
InitLate(pa, pb, flag) ==
    /\ advertisementTicker = [r \in Routers |-> NilTicker]
    /\ masterDownTimer = [r \in Routers |-> NilTimer]
    /\ eventChannel = [r \in Routers |-> <<>>]
    /\ packetQueue = [r \in Routers |-> <<>>]
    /\ wire = [r \in Routers |-> <<>>]
    /\ daemon = [r \in Routers |-> [check |-> 0, read |-> 0]]
    /\ sm = [r \in Routers |-> IF r = "A" THEN "running" ELSE "idle"]
    /\ pending = [r \in Routers |->
                     [e \in {START, SHUTDOWN} |->
                         IF r = "A" /\ e = START THEN 1 ELSE 0]]
    /\ stopPc = [r \in Routers |-> "idle"]
    /\ closed = [r \in Routers |-> 0]
    /\ starts = [r \in Routers |-> IF r = "A" THEN 1 ELSE 0]
    /\ obs = [r \in Routers |-> NoObs]
    /\ net = Routers
    /\ vr = [r \in Routers |->
                SetPreemptMode(
                    SetPriorityAndMasterAdvInterval(
                        Constructed(r, FALSE),
                        IF r = "A" THEN pa ELSE pb,
                        defaultAdvertisementInterval * 10),
                    IF r = "A" THEN TRUE ELSE flag)]
    /\ codec = NoCodec

\* B.Start(), called at some moment at which A is Master.
StartLate(r) ==
    /\ r = "B"
    /\ vr["A"].state = MASTER
    /\ Start(r)

NextLate ==
    \/ \E r \in Routers : InitStart(r)
    \/ \E r \in Routers : MasterTicker(r)
    \/ \E r \in Routers : MasterPacket(r)
    \/ \E r \in Routers : BackupPacket(r)
    \/ \E r \in Routers : BackupMasterDown(r)
    \/ \E r \in Routers : ChanSend(r)
    \/ \E r \in Routers : DaemonCheck(r)
    \/ \E r \in Routers : DaemonRead(r)
    \/ \E r \in Routers : MasterDownTimerFire(r)
    \/ \E r \in Routers : TickerFire(r)
    \/ \E r \in Routers : StartLate(r)
    \/ Tick

\* A has priority 100; B has priority 200 and preempts.
InitPreempt == InitLate(100, 200, TRUE)
SpecPreempt == InitPreempt /\ [][NextLate]_vars /\ Scheduling

\* S5: A has priority 100; B has priority 200 and preempt = false.
InitS5 == InitLate(100, 200, FALSE)
SpecS5 == InitS5 /\ [][NextLate]_vars /\ Scheduling

\* A preempting Backup takes an advertisement of a lower, non-zero priority:
\* neither its master-down timer nor any of its fields changes.
C11_NoDeference ==
    [][\A r \in Routers :
          (/\ vr[r].state = BACKUP
           /\ vr[r].preempt
           /\ TakesPacket(r)
           /\ Head(packetQueue[r]).priority > 0
           /\ Head(packetQueue[r]).priority < vr[r].priority)
          => /\ masterDownTimer'[r] = masterDownTimer[r]
             /\ vr'[r] = vr[r]]_vars

\* The Master takes the advertisement of the router of higher priority.
C11_MasterYields ==
    [][\A r \in Routers :
          (/\ vr[r].state = MASTER
           /\ TakesPacket(r)
           /\ Head(packetQueue[r]).priority > vr[r].priority)
          => /\ vr'[r].state = BACKUP
             /\ ~advertisementTicker'[r].running
             /\ masterDownTimer'[r].armed]_vars

\* C11: with preempt on, a Backup of higher priority than the sitting
\* Master does not let the Master's advertisements reset its master-down
\* timer, it becomes Master in the end, and the Master of lower priority
\* becomes Backup when it receives the new Master's advertisement.
C11_Preemption ==
    /\ C11_NoDeference
    /\ (vr["B"].state = BACKUP) ~> (vr["B"].state = MASTER)
    /\ C11_MasterYields

\* B has preempted: it became Master from Backup, and A, having taken B's
\* advertisement of priority 200 as Master, is Backup.
C11_Witness ==
    /\ vr["B"].state = MASTER
    /\ vr["B"].preempt
    /\ advertisementTicker["B"].running
    /\ vr["A"].state = BACKUP
    /\ obs["A"].trans = "Master2Backup"
    /\ obs["A"].prio = vr["B"].priority
    /\ vr["A"].priority < vr["B"].priority

\* C12: in S5, B (priority 200, preempt off), started while A is Master,
\* enters Backup and never becomes Master while A keeps advertising.
C12_S5NoPreempt ==
    /\ [](sm["B"] = "running" => vr["B"].state # MASTER)
    /\ (sm["B"] = "running") ~> (vr["B"].state = BACKUP)

\* B, with preempt off, has become Master beside the advertising Master A:
\* it has no reader left to hear A.
C12_Usurped ==
    /\ vr["B"].state = MASTER
    /\ ~vr["B"].preempt
    /\ obs["B"].trans = "Backup2Master"
    /\ daemon["B"].check + daemon["B"].read = 0
    /\ vr["A"].state = MASTER
    /\ advertisementTicker["A"].running
    /\ obs["A"].ev = "ticker"

---------------------------------------------------------------------------
(* Start(), Stop() and the end of the state machine                        *)

\* A Stop() has been called: its caller is about to send SHUTDOWN, or its
\* goroutine is.
StopUnderWay(r) == stopPc[r] = "send" \/ pending[r][SHUTDOWN] > 0

\* C13: after Start(), a Stop() called at any moment makes the state
\* machine return from its loop in the end, however the Start goroutine,
\* the Stop call and the state machine interleave.
C13_StopTerminates ==
    \A r \in Routers : StopUnderWay(r) ~> (sm[r] = "returned")

\* Stop() read INIT before START was consumed, so a single SHUTDOWN was
\* sent; it took the router from Backup or Master back to INIT, where the
\* state machine now waits with no event left to come.
C13_Stranded ==
    \E r \in Routers :
        /\ sm[r] = "running"
        /\ starts[r] = 1
        /\ vr[r].state = INIT
        /\ obs[r].ev = "SHUTDOWN"
        /\ obs[r].trans \in {"Backup2Init", "Master2Init"}
        /\ closed[r] = 0
        /\ eventChannel[r] = <<>>
        /\ stopPc[r] = "idle"
        /\ \A e \in {START, SHUTDOWN} : pending[r][e] = 0

---------------------------------------------------------------------------
(* Transition handlers                                                     *)

\* The handlers a caller registers, and how many transitions it registers
\* handlers for.
Handlers == {"h1", "h2"}
MaxListeners == 2

CallAddEventListener(r) ==
    /\ Unstarted(r)
    /\ \E typ \in Transitions, handler \in Handlers :
          /\ Cardinality({t \in Transitions :
                             vr[r].transitionHandler[t] # NoHandler}
                         \cup {typ}) <= MaxListeners
          /\ vr' = [vr EXCEPT ![r] = AddEventListener(@, typ, handler)]
    /\ UNCHANGED <<advertisementTicker, masterDownTimer, eventChannel,
                   packetQueue, wire, daemon, sm, pending, stopPc, closed,
                   starts, net, obs>>
    /\ UNCHANGED codec

NextListeners ==
    \/ \E r \in Routers : InitStart(r)
    \/ \E r \in Routers : InitShutdown(r)
    \/ \E r \in Routers : MasterEvent(r)
    \/ \E r \in Routers : MasterTicker(r)
    \/ \E r \in Routers : MasterPacket(r)
    \/ \E r \in Routers : BackupEvent(r)
    \/ \E r \in Routers : BackupPacket(r)
    \/ \E r \in Routers : BackupMasterDown(r)
    \/ \E r \in Routers : ChanSend(r)
    \/ \E r \in Routers : DaemonCheck(r)
    \/ \E r \in Routers : DaemonRead(r)
    \/ \E r \in Routers : MasterDownTimerFire(r)
    \/ \E r \in Routers : TickerFire(r)
    \/ \E r \in Routers : Start(r)
    \/ \E r \in Routers : StopCall(r)
    \/ \E r \in Routers : StopSend(r)
    \/ \E r \in Routers : CallAddEventListener(r)
    \/ \E r \in Routers : InjectResign(r)
    \/ Tick

SpecListeners == Init /\ [][NextListeners]_vars

\* The step in which r's state machine takes a tick of its ticker, and the
\* steps in which it takes anything at all.
TakesTick(r) ==
    /\ advertisementTicker[r].C = 1
    /\ advertisementTicker'[r].C = 0
    /\ advertisementTicker'[r].running

Iterates(r) ==
    \/ eventChannel[r] # <<>> /\ eventChannel'[r] = Tail(eventChannel[r])
    \/ TakesPacket(r)
    \/ TakesExpiry(r)
    \/ TakesTick(r)

\* The name of the transition from state s to state t.
TransitionOf(s, t) ==
    CASE s = INIT /\ t = MASTER -> "Init2Master"
      [] s = INIT /\ t = BACKUP -> "Init2Backup"
      [] s = MASTER /\ t = INIT -> "Master2Init"
      [] s = MASTER /\ t = BACKUP -> "Master2Backup"
      [] s = BACKUP /\ t = MASTER -> "Backup2Master"
      [] s = BACKUP /\ t = INIT -> "Backup2Init"
      [] OTHER -> "none"

\* C15: every change of the state is one of the six transitions, made in
\* an iteration of the state machine; in that iteration the handler
\* registered for the transition (the one registered last, none if none
\* was) is called once, with the router already in the target state, and
\* no other handler is called; an iteration that leaves the state alone
\* calls no handler, and handlers are registered only by AddEventListener.
C15_Handlers ==
    [][\A r \in Routers :
          LET t == TransitionOf(vr[r].state, vr'[r].state)
              h == vr[r].transitionHandler[t]
          IN  /\ vr'[r].state # vr[r].state
                    => /\ t \in Transitions
                       /\ Iterates(r)
                       /\ obs'[r].trans = t
                       /\ obs'[r].called =
                             IF h = NoHandler THEN <<>>
                             ELSE <<[handler |-> h, transition |-> t,
                                     state |-> vr'[r].state]>>
              /\ (Iterates(r) /\ vr'[r].state = vr[r].state)
                    => obs'[r].called = <<>> /\ obs'[r].trans = "none"
              /\ ~Iterates(r) => obs'[r] = obs[r]
              /\ (Running(r) \/ Iterates(r))
                    => vr'[r].transitionHandler = vr[r].transitionHandler]_vars

\* A handler was registered for Backup->Master in place of an earlier one
\* and another for Init->Backup; the state machine has just become Master
\* from Backup and called the former, and only it.
C15_Witness ==
    \E r \in Routers :
        /\ vr[r].transitionHandler["Backup2Master"] = "h2"
        /\ vr[r].transitionHandler["Init2Backup"] = "h1"
        /\ vr[r].state = MASTER
        /\ obs[r].trans = "Backup2Master"
        /\ obs[r].called = <<[handler |-> "h2", transition |-> "Backup2Master",
                              state |-> MASTER]>>

---------------------------------------------------------------------------
(* Priority, skew time and durations                                        *)

\* C17: an owner keeps priority 255: wherever the state machine waits for
\* its next event, owner implies priority = 255.
C17_OwnerKeeps255 ==
    \A r \in Routers : vr[r].owner => vr[r].priority = 255

\* A router that held priority 255 was given priority 1 by
\* SetPriorityAndMasterAdvInterval: it is flagged owner, has started as
\* Master and advertises priority 1.
C17_OwnerDemoted ==
    \E r \in Routers :
        /\ Running(r)
        /\ vr[r].owner
        /\ vr[r].priority = 1
        /\ vr[r].state = MASTER
        /\ obs[r].trans = "Init2Master"
        /\ obs[r].sent[1].priority = 1

\* Priorities and intervals (centiseconds) the router is configured with,
\* and that its peers advertise, when the arithmetic is examined.
ArithPriorities == {1, 2, 100, 127, 128, 254, 255}
ArithIntervals == {1, 2, 3, 100, 255, 256, 257, 1000, 2048, 4095}

ConfigureAny(r) ==
    /\ Unstarted(r)
    /\ \E p \in ArithPriorities, i \in ArithIntervals :
          vr' = [vr EXCEPT ![r] = SetPriorityAndMasterAdvInterval(@, p, i * 10)]
    /\ UNCHANGED <<advertisementTicker, masterDownTimer, eventChannel,
                   packetQueue, wire, daemon, sm, pending, stopPc, closed,
                   starts, net, obs>>
    /\ UNCHANGED codec

\* A peer of priority 255 at the larger address advertises its interval.
InjectArith(r) ==
    /\ r \in net
    /\ closed[r] = 0
    /\ daemon[r].check + daemon[r].read > 0
    /\ Len(wire[r]) + Len(packetQueue[r]) < MaxInFlight
    /\ \E i \in ArithIntervals :
          wire' = [wire EXCEPT ![r] =
                      Append(@, [ttl |-> 255, src |-> IPHigh,
                                 dst |-> VRRPMultiAddrIPv4, sumOK |-> TRUE,
                                 pkt |-> PeerPacket(255, IPHigh, i, LocalVRID)])]
    /\ UNCHANGED <<vr, advertisementTicker, masterDownTimer, eventChannel,
                   packetQueue, daemon, sm, pending, stopPc, closed, starts,
                   net, obs>>
    /\ UNCHANGED codec

\* Configuration, start-up and the adoption of a peer's interval: every
\* call of setMasterAdvInterval, with no time passing.
NextArith ==
    \/ \E r \in Routers : ConfigureAny(r)
    \/ \E r \in Routers : Start(r)
    \/ \E r \in Routers : ChanSend(r)
    \/ \E r \in Routers : InitStart(r)
    \/ \E r \in Routers : DaemonCheck(r)
    \/ \E r \in Routers : DaemonRead(r)
    \/ \E r \in Routers : InjectArith(r)
    \/ \E r \in Routers : MasterPacket(r)
    \/ \E r \in Routers : BackupPacket(r)

InitArith ==
    /\ InitCommon
    /\ net = {"A"}
    /\ vr = [r \in Routers |-> Constructed(r, FALSE)]

SpecArith == InitArith /\ [][NextArith]_vars

\* The two formulas as exact integers.
ExactSkew(a, p) == a - (a * p) \div 256
ExactMasterDown(a, p) == 3 * a + ExactSkew(a, p)

\* setMasterAdvInterval over the whole range: every priority in 1..255 and
\* every interval in 1..4095 centiseconds.
C18_WholeRange ==
    \A a \in 1..4095 : \A p \in 1..255 :
        LET v == setMasterAdvInterval([ZeroRouter EXCEPT !.priority = p], a)
        IN  /\ v.advertisementIntervalOfMaster = a
            /\ v.skewTime = ExactSkew(a, p)
            /\ v.masterDownInterval = ExactMasterDown(a, p)

\* C18: wherever the state machine waits for its next event, skew_time and
\* master_down_interval are the exact integers a - floor(a*p/256) and
\* 3a + skew_time for the current priority p and master_adv_interval a,
\* with nothing lost to 16 bits or to rounding, for p in 1..255 and a in
\* 1..4095 centiseconds.
C18_SkewAndMasterDown ==
    /\ C18_WholeRange
    /\ \A r \in Routers :
          LET a == vr[r].advertisementIntervalOfMaster
              p == vr[r].priority
          IN  (a \in 1..4095 /\ p \in 1..255)
                 => /\ vr[r].skewTime = ExactSkew(a, p)
                    /\ vr[r].masterDownInterval = ExactMasterDown(a, p)

\* A Backup of priority 254 has adopted a peer's interval of 4095 cs: the
\* product 4095 * 254 does not fit 16 bits, skew_time is 32 and
\* master_down_interval 12317.
C18_Witness ==
    \E r \in Routers :
        /\ Running(r)
        /\ vr[r].state = BACKUP
        /\ obs[r].ev = "packet"
        /\ vr[r].priority = 254
        /\ vr[r].advertisementIntervalOfMaster = 4095
        /\ vr[r].skewTime = 32
        /\ vr[r].masterDownInterval = 12317

\* C19: whenever the state machine arms or resets the master-down timer,
\* its duration is 10 ms for each centisecond of master_down_interval
\* (of skew_time after an advertisement of priority 0), and a ticker it
\* starts has a period of 10 ms for each centisecond of
\* advertisement_interval: nothing is lost to 16-bit arithmetic.
C19_Durations ==
    [][\A r \in Routers :
          /\ (/\ Iterates(r)
              /\ masterDownTimer'[r].armed
              /\ (masterDownTimer'[r] # masterDownTimer[r]
                     \/ vr'[r].state # vr[r].state))
                => /\ masterDownTimer'[r].remaining = masterDownTimer'[r].d
                   /\ masterDownTimer'[r].d =
                         IF /\ vr[r].state = BACKUP
                            /\ TakesPacket(r)
                            /\ Head(packetQueue[r]).priority = 0
                         THEN 10 * vr'[r].skewTime
                         ELSE 10 * vr'[r].masterDownInterval
          /\ (advertisementTicker'[r].running /\ ~advertisementTicker[r].running)
                => /\ advertisementTicker'[r].period =
                         10 * vr'[r].advertisementInterval
                   /\ advertisementTicker'[r].remaining =
                         advertisementTicker'[r].period]_vars

\* A Master has yielded to a peer that advertises an interval of 4095 cs:
\* its master-down timer is armed with 10 * master_down_interval reduced
\* modulo 2^16 milliseconds.
C19_Wrapped ==
    \E r \in Routers :
        /\ vr[r].state = BACKUP
        /\ obs[r].trans = "Master2Backup"
        /\ vr[r].masterDownInterval \in 1..16380
        /\ masterDownTimer[r].armed
        /\ masterDownTimer[r].d = (10 * vr[r].masterDownInterval) % 65536
        /\ masterDownTimer[r].d < 10 * vr[r].masterDownInterval

---------------------------------------------------------------------------
(* A Master tenure                                                         *)

\* Advertisement intervals (ms) and an additional protected address the
\* router is configured with before Start().
TenureIntervalsMs == {10, 40950}
MoreVIPs == {<<10, 0, 0, 101>>}

CallSetAdvInterval(r) ==
    /\ Unstarted(r)
    /\ \E ms \in TenureIntervalsMs :
          vr' = [vr EXCEPT ![r] = SetAdvInterval(@, ms)]
    /\ UNCHANGED <<advertisementTicker, masterDownTimer, eventChannel,
                   packetQueue, wire, daemon, sm, pending, stopPc, closed,
                   starts, net, obs>>
    /\ UNCHANGED codec

CallAddIPvXAddr(r) ==
    /\ Unstarted(r)
    /\ \E ip \in MoreVIPs :
          vr' = [vr EXCEPT ![r] = AddIPvXAddr(@, ip)]
    /\ UNCHANGED <<advertisementTicker, masterDownTimer, eventChannel,
                   packetQueue, wire, daemon, sm, pending, stopPc, closed,
                   starts, net, obs>>
    /\ UNCHANGED codec

NextTenure ==
    \/ \E r \in Routers : InitStart(r)
    \/ \E r \in Routers : InitShutdown(r)
    \/ \E r \in Routers : MasterEvent(r)
    \/ \E r \in Routers : MasterTicker(r)
    \/ \E r \in Routers : MasterPacket(r)
    \/ \E r \in Routers : BackupEvent(r)
    \/ \E r \in Routers : BackupPacket(r)
    \/ \E r \in Routers : BackupMasterDown(r)
    \/ \E r \in Routers : ChanSend(r)
    \/ \E r \in Routers : DaemonCheck(r)
    \/ \E r \in Routers : DaemonRead(r)
    \/ \E r \in Routers : MasterDownTimerFire(r)
    \/ \E r \in Routers : TickerFire(r)
    \/ \E r \in Routers : Start(r)
    \/ \E r \in Routers : StopCall(r)
    \/ \E r \in Routers : StopSend(r)
    \/ \E r \in Routers : CallSetAdvInterval(r)
    \/ \E r \in Routers : CallAddIPvXAddr(r)
    \/ \E r \in Routers : InjectResign(r)
    \/ Tick

SpecTenure == Init /\ [][NextTenure]_vars

\* The runtime delivers a tick of r's ticker.
TickDelivered(r) ==
    /\ advertisementTicker[r].running
    /\ advertisementTicker[r].remaining = 0
    /\ advertisementTicker'[r].C = 1
    /\ advertisementTicker'[r].remaining = advertisementTicker[r].period

\* C20: a Master that takes a tick of its ticker emits one advertisement
\* with version 3, type 1, its VRID, priority, advertisement interval and
\* protected addresses (onto the segment while its connection is open),
\* and stays Master.  The ticker's period is 10 ms
\* for each centisecond of the advertisement interval, no tick is dropped,
\* and each tick is taken at the instant it is delivered, so the ticker's
\* emissions of a tenure are one advertisement interval apart.
C20_TickerEmission ==
    [][\A r \in Routers :
          /\ (vr[r].state = MASTER /\ Running(r) /\ TakesTick(r))
                => /\ Len(obs'[r].sent) = 1
                   /\ obs'[r].sent[1].version = 3
                   /\ obs'[r].sent[1].type = 1
                   /\ obs'[r].sent[1].vrid = vr[r].vrID
                   /\ obs'[r].sent[1].priority = vr[r].priority
                   /\ obs'[r].sent[1].maxAdvInt = vr[r].advertisementInterval
                   /\ obs'[r].sent[1].addrs = vr[r].protectedIPaddrs
                   /\ obs'[r].sent[1].count =
                         Cardinality(vr[r].protectedIPaddrs)
                   /\ (closed[r] = 0 /\ Len(wire[r]) < SockBuf)
                         => wire'[r] =
                               Append(wire[r], Datagram(r, obs'[r].sent[1]))
                   /\ vr'[r] = vr[r]
                   /\ advertisementTicker[r].period =
                         10 * vr[r].advertisementInterval
                   /\ advertisementTicker[r].remaining =
                         advertisementTicker[r].period
          /\ TickDelivered(r)
                => /\ advertisementTicker[r].C = 0
                   /\ vr[r].state = MASTER
                   /\ Running(r)]_vars

\* A Master with an advertisement interval of 4095 cs and two protected
\* addresses has just advertised from its ticker.
C20_Witness ==
    \E r \in Routers :
        /\ vr[r].state = MASTER
        /\ obs[r].ev = "ticker"
        /\ vr[r].advertisementInterval = 4095
        /\ Cardinality(vr[r].protectedIPaddrs) = 2
        /\ obs[r].sent[1].maxAdvInt = 4095
        /\ obs[r].sent[1].count = 2
        /\ advertisementTicker[r].period = 40950
        /\ advertisementTicker[r].remaining = 40950

---------------------------------------------------------------------------
(* The receive path: well-formed and malformed datagrams                   *)

\* The advertisement of a Master at the larger address, and what a segment
\* can carry besides it: a hop count below 255, VRRP version 2, a checksum
\* that does not validate, another virtual router, a datagram cut short of
\* the address its count declares, and a message of type 2 (priority 254)
\* that is well-formed in every other respect.
GoodDatagram ==
    [ttl |-> 255, src |-> IPHigh, dst |-> VRRPMultiAddrIPv4, sumOK |-> TRUE,
     pkt |-> PeerPacket(255, IPHigh, 100, LocalVRID)]

ReceiveDatagrams ==
    {GoodDatagram,
     [GoodDatagram EXCEPT !.ttl = 64],
     [GoodDatagram EXCEPT !.pkt.version = 2],
     [GoodDatagram EXCEPT !.sumOK = FALSE],
     [GoodDatagram EXCEPT !.pkt.vrid = LocalVRID + 1],
     [GoodDatagram EXCEPT !.pkt.addrs = {}],
     [GoodDatagram EXCEPT !.pkt.type = 2, !.pkt.priority = 254]}

\* Datagrams of the peer that may wait between socket and state machine.
MaxBurst == 2

InjectReceive(r) ==
    /\ r \in net
    /\ closed[r] = 0
    /\ daemon[r].check + daemon[r].read > 0
    /\ Len(wire[r]) + Len(packetQueue[r]) < MaxBurst
    /\ \E d \in ReceiveDatagrams : wire' = [wire EXCEPT ![r] = Append(@, d)]
    /\ UNCHANGED <<vr, advertisementTicker, masterDownTimer, eventChannel,
                   packetQueue, daemon, sm, pending, stopPc, closed, starts,
                   net, obs>>
    /\ UNCHANGED codec

NextReceive ==
    \/ \E r \in Routers : InitStart(r)
    \/ \E r \in Routers : InitShutdown(r)
    \/ \E r \in Routers : MasterEvent(r)
    \/ \E r \in Routers : MasterTicker(r)
    \/ \E r \in Routers : MasterPacket(r)
    \/ \E r \in Routers : BackupEvent(r)
    \/ \E r \in Routers : BackupPacket(r)
    \/ \E r \in Routers : BackupMasterDown(r)
    \/ \E r \in Routers : ChanSend(r)
    \/ \E r \in Routers : DaemonCheck(r)
    \/ \E r \in Routers : DaemonRead(r)
    \/ \E r \in Routers : MasterDownTimerFire(r)
    \/ \E r \in Routers : TickerFire(r)
    \/ \E r \in Routers : Start(r)
    \/ \E r \in Routers : StopCall(r)
    \/ \E r \in Routers : StopSend(r)
    \/ \E r \in Routers : InjectReceive(r)
    \/ Tick

SpecReceive == Init /\ [][NextReceive]_vars

\* The reader goroutine of r takes the datagram at the head of its socket.
Reads(r) ==
    /\ closed[r] = 0
    /\ wire[r] # <<>>
    /\ wire'[r] = Tail(wire[r])
    /\ daemon'[r] # daemon[r]

\* C21: an advertisement is pushed to the router's queue only if its
\* datagram had TTL / hop limit 255, version 3, a checksum that validates
\* against the datagram's pseudo-header and the local VRID; a datagram that
\* fails one of these is dropped, so that nothing else is ever in the queue
\* the state machine reads from.
C21_Filter ==
    [][\A r \in Routers :
          /\ packetQueue'[r] # packetQueue[r]
                 => \/ /\ TakesPacket(r)
                       /\ packetQueue'[r] = Tail(packetQueue[r])
                    \/ /\ Reads(r)
                       /\ LET d == Head(wire[r]) IN
                          /\ d.ttl = 255
                          /\ d.pkt.version = 3
                          /\ d.sumOK
                          /\ d.pkt.vrid = vr[r].vrID
                          /\ packetQueue'[r] =
                                Append(packetQueue[r],
                                       [d.pkt EXCEPT !.saddr = d.src,
                                                     !.daddr = d.dst])
          /\ Reads(r) /\ ( \/ Head(wire[r]).ttl # 255
                           \/ Head(wire[r]).pkt.version # 3
                           \/ ~Head(wire[r]).sumOK
                           \/ Head(wire[r]).pkt.vrid # vr[r].vrID )
                 => UNCHANGED <<packetQueue, vr, masterDownTimer,
                                advertisementTicker, obs>>]_vars

\* The reader of the Backup has taken a well-formed advertisement for the
\* local VRID from the socket and pushed it to the queue.
C21_Witness ==
    /\ Running("A")
    /\ vr["A"].state = BACKUP
    /\ wire["A"] = <<>>
    /\ Len(packetQueue["A"]) = 1
    /\ packetQueue["A"][1].saddr = IPHigh
    /\ packetQueue["A"][1].priority = 255
    /\ daemon["A"].check + daemon["A"].read = 1

\* A datagram ReadMessage() rejects, or one of another virtual router.
Malformed(r, d) == ~ReadMessageOK(d) \/ d.pkt.vrid # vr[r].vrID

Readers(r) == daemon[r].check + daemon[r].read

\* C22: a malformed incoming datagram (wrong length, wrong VRID, checksum
\* mismatch, wrong version, wrong TTL) is dropped with the router's state
\* unchanged and leaves the reader in place, so that valid advertisements
\* arriving afterwards are still delivered.
C22_MalformedRecoverable ==
    [][\A r \in Routers :
          Reads(r) /\ Malformed(r, Head(wire[r]))
             => /\ vr'[r] = vr[r]
                /\ packetQueue'[r] = packetQueue[r]
                /\ Readers(r)' = Readers(r)]_vars

\* A running Backup or Master whose connection was never closed has no
\* reader left, and a valid advertisement of the peer for the local VRID,
\* which arrived behind a malformed datagram, stays in the socket.
C22_Deaf ==
    \E r \in Routers :
       /\ Running(r)
       /\ vr[r].state \in {MASTER, BACKUP}
       /\ closed[r] = 0
       /\ Readers(r) = 0
       /\ wire[r] # <<>>
       /\ Head(wire[r]) = GoodDatagram

\* C27: a received message whose type field is not 1 is ignored: it is
\* never delivered to the state machine and causes no state, timer or
\* interval change, even when TTL, version, checksum and VRID are valid.
C27_TypeIgnored ==
    [][\A r \in Routers :
          /\ Reads(r) /\ Head(wire[r]).pkt.type # 1
                => packetQueue'[r] = packetQueue[r]
          /\ TakesPacket(r) => Head(packetQueue[r]).type = 1]_vars

\* The state machine of a Backup has taken the message of type 2 as the
\* advertisement of a Master: it adopted the interval the message carries
\* and re-armed the master-down timer.
C27_Obeyed ==
    \E r \in Routers :
       /\ Running(r)
       /\ vr[r].state = BACKUP
       /\ obs[r].ev = "packet"
       /\ obs[r].prio = 254
       /\ masterDownTimer[r].armed

\* The iteration r's state machine takes sends an advertisement (and, on
\* becoming Master, announces the addresses) on a connection that r.close()
\* has closed: WriteMessage and AnnounceAll return an error.
SendFails(r) ==
    /\ Iterates(r)
    /\ closed[r] > 0
    /\ obs'[r].sent # <<>>

\* C23: a failed advertisement send or announce_all is logged only.  The
\* transition in progress completes as on success (same target state, same
\* timer started, same handler invoked), and a failed periodic send or a
\* failed final priority-0 send leaves the router's state as a successful
\* one does.
C23_SendFailureLogged ==
    [][\A r \in Routers :
          SendFails(r) =>
             LET v == vr[r]
                 becomesMaster(t) ==
                    /\ vr'[r] = [v EXCEPT !.state = MASTER]
                    /\ advertisementTicker'[r].running
                    /\ advertisementTicker'[r].period =
                          DurationMs(v.advertisementInterval)
                    /\ obs'[r].announce = <<v.protectedIPaddrs>>
                    /\ obs'[r].trans = t
                    /\ obs'[r].called =
                          stateChanged([v EXCEPT !.state = MASTER], t)
             IN  /\ wire' = wire
                 /\ sm'[r] = sm[r]
                 /\ masterDownTimer'[r].armed = masterDownTimer[r].armed
                 /\ CASE v.state = INIT -> becomesMaster("Init2Master")
                      [] v.state = BACKUP -> becomesMaster("Backup2Master")
                      [] v.state = MASTER /\ TakesTick(r) ->
                            /\ vr'[r] = v
                            /\ obs'[r].sent[1].priority = v.priority
                            /\ obs'[r].trans = "none"
                      [] OTHER ->
                            LET w == [setPriority(setPriority(v, 0),
                                                  v.priority)
                                         EXCEPT !.state = INIT]
                            IN  /\ vr'[r] = w
                                /\ w.priority = v.priority
                                /\ obs'[r].sent[1].priority = 0
                                /\ ~advertisementTicker'[r].running
                                /\ obs'[r].trans = "Master2Init"
                                /\ obs'[r].called =
                                      stateChanged(w, "Master2Init")]_vars

\* A router started again after r.close() became Master from Backup: the
\* advertisement it tried to send went nowhere, and its ticker runs.
C23_Witness ==
    \E r \in Routers :
       /\ Running(r)
       /\ closed[r] > 0
       /\ vr[r].state = MASTER
       /\ obs[r].trans = "Backup2Master"
       /\ obs[r].sent # <<>>
       /\ wire[r] = <<>>
       /\ advertisementTicker[r].running

---------------------------------------------------------------------------
(* The packet codec: src/vrrp_packet.go, byte for byte                     *)

\* x & 0x0F and x & 0xF0 of a byte
LowNibble(x) == x % 16
HighNibble(x) == x - (x % 16)

\* var packet VRRPPacket: Header [8]byte, IPAddress [][4]byte.  Header[k]
\* of the source is Header[k + 1] here.
ZeroPacket == [Header |-> <<0, 0, 0, 0, 0, 0, 0, 0>>, IPAddress |-> <<>>]

SetVersion(packet, Version) ==
    [packet EXCEPT !.Header[1] = U8(Version * 16) + LowNibble(@)]

SetType(packet) == [packet EXCEPT !.Header[1] = HighNibble(@) + 1]

GetVirtualRouterID(packet) == packet.Header[2]

SetVirtualRouterID(packet, VirtualRouterID) ==
    [packet EXCEPT !.Header[2] = VirtualRouterID]

GetPriority(packet) == packet.Header[3]

SetPriority(packet, Priority) == [packet EXCEPT !.Header[3] = Priority]

GetIPvXAddrCount(packet) == packet.Header[4]

setIPvXAddrCount(packet, count) == [packet EXCEPT !.Header[4] = count]

GetAdvertisementInterval(packet) ==
    LowNibble(packet.Header[5]) * 256 + packet.Header[6]

SetAdvertisementInterval(packet, interval) ==
    [packet EXCEPT !.Header[5] = HighNibble(@) + LowNibble(interval \div 256),
                   !.Header[6] = U8(interval)]

\* packet.AddIPAddr(ip): one group of four bytes for an IPv4 address, four
\* for an IPv6 address; the count is a byte.
AddIPAddr(packet, ip) ==
    LET groups == IF Len(ip) = 4 THEN <<ip>>
                  ELSE [g \in 1..4 |-> SubSeq(ip, 4 * g - 3, 4 * g)]
    IN  setIPvXAddrCount([packet EXCEPT !.IPAddress = @ \o groups],
                         U8(GetIPvXAddrCount(packet) + 1))

\* packet.ToBytes()
ToBytes(packet) ==
    [i \in 1..(8 + Len(packet.IPAddress) * 4) |->
        IF i <= 8 THEN packet.Header[i]
        ELSE packet.IPAddress[((i - 9) \div 4) + 1][((i - 9) % 4) + 1]]

PacketSize(packet) == 8 + Len(packet.IPAddress) * 4

\* psh.ToBytes(): 36 bytes, Saddr from byte 0, Daddr from byte 16, then
\* Zero, Protocol and Len, high byte first.
PseudoHeaderToBytes(psh) ==
    [i \in 1..36 |->
        IF i > 32
        THEN <<psh.Zero, psh.Protocol, U8(psh.Len \div 256), U8(psh.Len)>>[i - 32]
        ELSE IF i > 16
        THEN IF i - 16 <= Len(psh.Daddr) THEN psh.Daddr[i - 16] ELSE 0
        ELSE IF i <= Len(psh.Saddr) THEN psh.Saddr[i] ELSE 0]

\* *(*uint16)(ptr): the two bytes at ptr as the platform reads a uint16.
uint16At(octets, i, bigEndian) ==
    IF bigEndian THEN octets[i] * 256 + octets[i + 1]
                 ELSE octets[i] + octets[i + 1] * 256

\* The summing loop of SetCheckSum and ValidateCheckSum over the words
\* number lo to hi of octets (word k is at bytes 2k-1 and 2k), summed by
\* halves to keep the evaluation shallow.
RECURSIVE sumWords(_, _, _, _)
sumWords(octets, lo, hi, bigEndian) ==
    IF lo > hi THEN 0
    ELSE IF lo = hi THEN uint16At(octets, 2 * lo - 1, bigEndian)
    ELSE LET mid == (lo + hi) \div 2
         IN  sumWords(octets, lo, mid, bigEndian)
                + sumWords(octets, mid + 1, hi, bigEndian)

\* for x > 1 { sum += uint16 } and, for a last odd byte,
\* if x > 0 { sum += uint8 }
sumOf(octets, bigEndian) ==
    sumWords(octets, 1, Len(octets) \div 2, bigEndian)
       + (IF Len(octets) % 2 = 1 THEN octets[Len(octets)] ELSE 0)

\* for (sum >> 16) > 0 { sum = sum&65535 + sum>>16 }
RECURSIVE fold(_)
fold(sum) ==
    IF sum \div 65536 > 0 THEN fold((sum % 65536) + (sum \div 65536))
    ELSE sum

\* The sum both functions form over pshdr.ToBytes() followed by
\* packet.ToBytes(), folded to 16 bits.  (The uint32 accumulator cannot
\* wrap: 36 + 8 + 4 * 255 * 4 bytes sum to less than 2^31.)
foldedSum(packet, pshdr, bigEndian) ==
    fold(sumOf(PseudoHeaderToBytes(pshdr) \o ToBytes(packet), bigEndian))

\* packet.SetCheckSum(pshdr): sum = ^sum; Header[7] = byte(sum >> 8);
\* Header[6] = byte(sum).  Only the low 16 bits of ^sum are stored.
SetCheckSum(packet, pshdr, bigEndian) ==
    LET sum == 65535 - foldedSum(packet, pshdr, bigEndian)
    IN  [packet EXCEPT !.Header[8] = U8(sum \div 256), !.Header[7] = U8(sum)]

\* packet.ValidateCheckSum(pshdr): uint16(sum) == 65535
ValidateCheckSum(packet, pshdr, bigEndian) ==
    U16(foldedSum(packet, pshdr, bigEndian)) = 65535

NilPacket == [Header |-> <<>>, IPAddress |-> <<>>]

\* A FromBytes that takes as many addresses as the bytes hold.
FromBytesPartial(IPvXVersion, octets) ==
    IF Len(octets) < 8 \/ IPvXVersion \notin {4, 6}
    THEN [err |-> TRUE, packet |-> NilPacket]
    ELSE [err |-> FALSE,
          packet |-> [Header |-> SubSeq(octets, 1, 8),
                      IPAddress |->
                         [index \in 1..((Len(octets) - 8) \div 4) |->
                             SubSeq(octets, 4 * index + 5, 4 * index + 8)]]]

\* FromBytes(IPvXVersion, octets): the packet, or an error and nil.
FromBytes(IPvXVersion, octets) ==
    IF Len(octets) < 8 THEN [err |-> TRUE, packet |-> NilPacket]
    ELSE LET Header == SubSeq(octets, 1, 8)
             count == Header[4]
             countofaddrs == IF IPvXVersion = 6 THEN count * 4 ELSE count
         IN  IF IPvXVersion \notin {4, 6}
             THEN [err |-> TRUE, packet |-> NilPacket]
             ELSE IF 8 + countofaddrs * 4 > Len(octets)
             THEN [err |-> TRUE, packet |-> NilPacket]
             ELSE [err |-> FALSE,
                   packet |-> [Header |-> Header,
                               IPAddress |->
                                  [index \in 1..countofaddrs |->
                                      SubSeq(octets, 4 * index + 5,
                                             4 * index + 8)]]]

---------------------------------------------------------------------------
(* The codec at work: build, checksum, serialize, parse, validate          *)

CodecVRIDs == {0, 240, 255}
CodecPriorities == {0, 100, 255}
CodecIntervals == {0, 100, 4095}
\* numbers of addresses; 256 is the first the count byte cannot hold
CodecCounts == {0, 1, 2, 256}

\* The i-th address put into a packet: 192.168.0.230 first.
CodecAddr(family, i) ==
    IF family = IPv4 THEN <<192, 168, 0, U8(229 + i)>>
    ELSE <<254, 128, 0, 0, 0, 0, 0, 0, 0, 0, 0, 0, 0, 0, 1, U8(i)>>

\* AddIPAddr for the addresses number i to n, in order, by halves; the
\* packet is evaluated before it is handed on.
RECURSIVE addAddrs(_, _, _, _)
addAddrs(packet, family, i, n) ==
    IF i > n \/ Len(packet.Header) # 8 THEN packet
    ELSE IF i = n THEN AddIPAddr(packet, CodecAddr(family, i))
    ELSE LET mid == (i + n) \div 2
             half == addAddrs(packet, family, i, mid)
         IN  IF Len(half.Header) # 8 THEN half
             ELSE addAddrs(half, family, mid + 1, n)

\* The setters in the order of r.assembleVRRPPacket().
BuildPacket(family, vrid, priority, interval, n) ==
    addAddrs(
        SetType(
            SetAdvertisementInterval(
                SetVirtualRouterID(
                    SetVersion(SetPriority(ZeroPacket, priority), VRRPv3),
                    vrid),
                interval)),
        family, 1, n)

\* Pseudo-headers: the one of the package's tests (192.168.0.220 to
\* 224.0.0.18, both in 16-byte form), the one assembleVRRPPacket builds for
\* router A, and two of IPv6, one of them with a length of its own.
CodecPseudoHeaders(family, packet) ==
    IF family = IPv4
    THEN {[Saddr |-> To16(<<192, 168, 0, 220>>),
           Daddr |-> To16(VRRPMultiAddrIPv4), Zero |-> 0,
           Protocol |-> VRRPIPProtocolNumber, Len |-> PacketSize(packet)],
          [Saddr |-> IPA, Daddr |-> To16(VRRPMultiAddrIPv4), Zero |-> 0,
           Protocol |-> VRRPIPProtocolNumber, Len |-> PacketSize(packet)]}
    ELSE {[Saddr |-> IP6A, Daddr |-> VRRPMultiAddrIPv6, Zero |-> 0,
           Protocol |-> VRRPIPProtocolNumber, Len |-> PacketSize(packet)],
          [Saddr |-> IP6Low, Daddr |-> VRRPMultiAddrIPv6, Zero |-> 0,
           Protocol |-> VRRPIPProtocolNumber, Len |-> 65535]}

\* Everything but the codec is at rest.
InitAtRest ==
    /\ advertisementTicker = [r \in Routers |-> NilTicker]
    /\ masterDownTimer = [r \in Routers |-> NilTimer]
    /\ eventChannel = [r \in Routers |-> <<>>]
    /\ packetQueue = [r \in Routers |-> <<>>]
    /\ wire = [r \in Routers |-> <<>>]
    /\ daemon = [r \in Routers |-> [check |-> 0, read |-> 0]]
    /\ sm = [r \in Routers |-> "idle"]
    /\ pending = [r \in Routers |-> [e \in {START, SHUTDOWN} |-> 0]]
    /\ stopPc = [r \in Routers |-> "idle"]
    /\ closed = [r \in Routers |-> 0]
    /\ starts = [r \in Routers |-> 0]
    /\ obs = [r \in Routers |-> NoObs]
    /\ net = {}
    /\ vr = [r \in Routers |-> Constructed(r, FALSE)]

\* A packet built with the setters and a pseudo-header for it, on a build
\* for a little-endian or a big-endian platform.
InitCodec ==
    /\ InitAtRest
    /\ \E family \in {IPv4, IPv6}, vrid \in CodecVRIDs,
          priority \in CodecPriorities, interval \in CodecIntervals,
          n \in CodecCounts, bigEndian \in BOOLEAN :
          LET packet == BuildPacket(family, vrid, priority, interval, n) IN
          \E pshdr \in CodecPseudoHeaders(family, packet) :
             codec = [pc |-> "built", bigEndian |-> bigEndian,
                      family |-> family, packet |-> packet, pshdr |-> pshdr,
                      octets |-> <<>>,
                      parsed |-> [err |-> FALSE, packet |-> NilPacket],
                      valid |-> FALSE, validParsed |-> FALSE]

AtRest ==
    UNCHANGED <<vr, advertisementTicker, masterDownTimer, eventChannel,
                packetQueue, wire, daemon, sm, pending, stopPc, closed,
                starts, net, obs>>

CallSetCheckSum ==
    /\ codec.pc = "built"
    /\ codec' = [codec EXCEPT
                    !.pc = "summed",
                    !.packet = SetCheckSum(@, codec.pshdr, codec.bigEndian)]
    /\ AtRest

CallToBytes ==
    /\ codec.pc = "summed"
    /\ codec' = [codec EXCEPT !.pc = "serialized",
                              !.octets = ToBytes(codec.packet)]
    /\ AtRest

CallFromBytes ==
    /\ codec.pc = "serialized"
    /\ codec' = [codec EXCEPT
                    !.pc = "parsed",
                    !.parsed = FromBytes(codec.family, codec.octets)]
    /\ AtRest

\* ValidateCheckSum on the packet itself and on the packet parsed from its
\* bytes.
CallValidateCheckSum ==
    /\ codec.pc = "parsed"
    /\ codec' = [codec EXCEPT
                    !.pc = "validated",
                    !.valid = ValidateCheckSum(codec.packet, codec.pshdr,
                                               codec.bigEndian),
                    !.validParsed =
                        /\ ~codec.parsed.err
                        /\ ValidateCheckSum(codec.parsed.packet, codec.pshdr,
                                            codec.bigEndian)]
    /\ AtRest

NextCodec ==
    \/ CallSetCheckSum
    \/ CallToBytes
    \/ CallFromBytes
    \/ CallValidateCheckSum

SpecCodec == InitCodec /\ [][NextCodec]_vars

\* C24: for every advertisement built with the packet setters and every
\* pseudo-header, FromBytes(family, ToBytes(p)) succeeds and yields the
\* same header fields, checksum included, and the same address list; and
\* after SetCheckSum(pshdr), ValidateCheckSum(pshdr) returns true, which it
\* does exactly when the folded sum is 0xFFFF.
C24_RoundTrip ==
    /\ codec.pc \in {"parsed", "validated"}
          => /\ ~codec.parsed.err
             /\ codec.parsed.packet.Header = codec.packet.Header
             /\ codec.parsed.packet.IPAddress = codec.packet.IPAddress
    /\ codec.pc = "validated"
          => /\ codec.valid
             /\ codec.valid <=>
                   foldedSum(codec.packet, codec.pshdr, codec.bigEndian)
                      = 65535

\* On a little-endian build a packet with 256 IPv4 addresses, whose count
\* byte has wrapped to 0, came back from its own bytes without an address.
C24_AddressesLost ==
    /\ codec.pc = "parsed"
    /\ ~codec.bigEndian
    /\ Len(codec.packet.IPAddress) = 256
    /\ GetIPvXAddrCount(codec.packet) = 0
    /\ ~codec.parsed.err
    /\ codec.parsed.packet.IPAddress = <<>>

\* The RFC 1071 checksum of octets: the complement of the one's-complement
\* sum of its big-endian 16-bit words.
RFC1071(octets) == 65535 - fold(sumOf(octets, TRUE))

\* The advertisement of scenario S1 (vrid 240, priority 100, one address
\* 192.168.0.230, interval 100) with the pseudo-header 192.168.0.220 to
\* 224.0.0.18.
IsS1 ==
    /\ codec.family = IPv4
    /\ GetVirtualRouterID(codec.packet) = 240
    /\ GetPriority(codec.packet) = 100
    /\ GetAdvertisementInterval(codec.packet) = 100
    /\ codec.packet.IPAddress = <<(<<192, 168, 0, 230>>)>>
    /\ codec.pshdr.Saddr = To16(<<192, 168, 0, 220>>)
    /\ codec.pshdr.Daddr = To16(<<224, 0, 0, 18>>)

\* 31 f0 64 01 00 64 06 08 c0 a8 00 e6
S1Bytes == <<49, 240, 100, 1, 0, 100, 6, 8, 192, 168, 0, 230>>

\* C25: the checksum SetCheckSum stores is byte for byte the big-endian
\* RFC 1071 checksum of pseudo-header || message (checksum field zero) for
\* every even-length input, so that the S1 advertisement serializes to
\* 31 f0 64 01 00 64 06 08 c0 a8 00 e6 and that byte string validates
\* against the same pseudo-header.
C25_ChecksumBytes ==
    /\ codec.pc \notin {"none", "built"}
          => LET blank == [codec.packet EXCEPT !.Header[7] = 0,
                                               !.Header[8] = 0]
                 sum == RFC1071(PseudoHeaderToBytes(codec.pshdr)
                                   \o ToBytes(blank))
             IN  /\ codec.packet.Header[7] = sum \div 256
                 /\ codec.packet.Header[8] = sum % 256
    /\ codec.pc \in {"serialized", "parsed", "validated"} /\ IsS1
          => codec.octets = S1Bytes
    /\ codec.pc = "validated" /\ IsS1
          => codec.valid /\ codec.validParsed

\* On a big-endian build the S1 advertisement went out with its checksum
\* bytes in the other order, 08 06, and neither the packet nor the packet
\* parsed from those bytes validates.
C25_Swapped ==
    /\ codec.pc = "validated"
    /\ codec.bigEndian
    /\ IsS1
    /\ codec.octets = <<49, 240, 100, 1, 0, 100, 8, 6, 192, 168, 0, 230>>
    /\ ~codec.valid
    /\ ~codec.validParsed

---------------------------------------------------------------------------
(* FromBytes on arbitrary input                                            *)

\* Longest input: two IPv6 addresses and a byte more.
MaxOctets == 41
\* address counts an input may declare
ParseCounts == {0, 1, 2, 3, 255}

\* An input of len bytes whose count byte, if it has one, is count; the
\* other bytes differ from place to place.
ParseInput(len, count, seed) ==
    [i \in 1..len |-> IF i = 4 THEN count ELSE U8(37 * i + seed)]

InitParse ==
    /\ InitAtRest
    /\ \E family \in {IPv4, IPv6}, len \in 0..MaxOctets,
          count \in ParseCounts, seed \in {0, 128}, bigEndian \in BOOLEAN :
          codec = [pc |-> "serialized", bigEndian |-> bigEndian,
                   family |-> family, packet |-> ZeroPacket,
                   pshdr |-> [Saddr |-> <<>>, Daddr |-> <<>>, Zero |-> 0,
                              Protocol |-> VRRPIPProtocolNumber,
                              Len |-> len],
                   octets |-> ParseInput(len, count, seed),
                   parsed |-> [err |-> FALSE, packet |-> NilPacket],
                   valid |-> FALSE, validParsed |-> FALSE]

NextParse == CallFromBytes

SpecParse == InitParse /\ [][NextParse]_vars

\* C26: FromBytes returns an error and no advertisement for every input
\* shorter than 8 bytes and for every input whose declared address count
\* needs more bytes than are present (8 + count * width > length, width 4
\* for IPv4 and 16 for IPv6); it never returns a partially populated
\* advertisement, and for accepted inputs the bytes past the last declared
\* address are ignored.
C26_FromBytes ==
    codec.pc = "parsed" =>
       LET octets == codec.octets
           width == IF codec.family = IPv4 THEN 4 ELSE 16
           short == Len(octets) < 8
           needs == IF short THEN 8 ELSE 8 + octets[4] * width
           result == codec.parsed
       IN  /\ result.err <=> (short \/ needs > Len(octets))
           /\ result.err => result.packet = NilPacket
           /\ ~result.err =>
                 /\ GetIPvXAddrCount(result.packet) = octets[4]
                 /\ PacketSize(result.packet) = needs
                 /\ ToBytes(result.packet) = SubSeq(octets, 1, needs)

\* An input of 41 bytes that declares two IPv6 addresses was accepted: the
\* packet holds the 40 bytes of header and addresses, not the last byte.
C26_Witness ==
    /\ codec.pc = "parsed"
    /\ codec.family = IPv6
    /\ Len(codec.octets) = 41
    /\ codec.octets[4] = 2
    /\ ~codec.parsed.err
    /\ Len(codec.parsed.packet.IPAddress) = 8

---------------------------------------------------------------------------
(* The interval a starting Backup assumes                                  *)

\* C28: on the Init->Backup transition master_adv_interval is set to the
\* router's configured advertisement_interval (the value last given to
\* SetAdvInterval), whatever it held before, so that the master-down timer
\* is armed with 3 * advertisement_interval + skew_time computed from that
\* value.
C28_Init2Backup ==
    [][\A r \in Routers :
          vr[r].state = INIT /\ vr'[r].state = BACKUP
             => LET a == vr[r].advertisementInterval
                    skew == skewOf(a, vr[r].priority)
                IN  /\ vr'[r].advertisementIntervalOfMaster = a
                    /\ vr'[r].skewTime = skew
                    /\ masterDownTimer'[r].armed
                    /\ masterDownTimer'[r].d = DurationMs(U16(3 * a + skew))]_vars

\* After SetAdvInterval(10 ms) a router of priority 100 has started as
\* Backup: it still takes the Master's interval to be the 100 cs of its
\* construction and waits 3.61 s, not 30 ms, for the Master.
C28_DefaultKept ==
    \E r \in Routers :
       /\ vr[r].state = BACKUP
       /\ obs[r].trans = "Init2Backup"
       /\ vr[r].advertisementInterval = 1
       /\ vr[r].advertisementIntervalOfMaster = 100
       /\ masterDownTimer[r].armed
       /\ masterDownTimer[r].d = 3610

---------------------------------------------------------------------------
(* An IPv6 virtual router                                                  *)

VIP6 == <<254, 128, 0, 0, 0, 0, 0, 0, 0, 0, 0, 0, 0, 0, 1, 0>>

\* Advertisements of an IPv6 peer at the lower address fe80::9, with the
\* priority of router A and as an owner.
IPv6Datagrams ==
    {[ttl |-> 255, src |-> IP6Low, dst |-> VRRPMultiAddrIPv6, sumOK |-> TRUE,
      pkt |-> [PeerPacket(p, IP6Low, 100, LocalVRID) EXCEPT !.addrs = {VIP6}]] :
        p \in {defaultPriority, 255}}

InjectIPv6(r) ==
    /\ r \in net
    /\ closed[r] = 0
    /\ daemon[r].check + daemon[r].read > 0
    /\ Len(wire[r]) + Len(packetQueue[r]) < MaxInFlight
    /\ \E d \in IPv6Datagrams : wire' = [wire EXCEPT ![r] = Append(@, d)]
    /\ UNCHANGED <<vr, advertisementTicker, masterDownTimer, eventChannel,
                   packetQueue, daemon, sm, pending, stopPc, closed, starts,
                   net, obs, codec>>

\* Router A as NewVirtualRouter(240, nif, false, IPv6) leaves it, with its
\* virtual address added.
InitIPv6 ==
    /\ InitCommon
    /\ net = {"A"}
    /\ vr = [r \in Routers |->
                AddIPvXAddr(NewVirtualRouter(LocalVRID, InterfaceIPv6[r],
                                             FALSE), VIP6)]

NextIPv6 ==
    \/ \E r \in Routers : InitStart(r)
    \/ \E r \in Routers : MasterTicker(r)
    \/ \E r \in Routers : MasterPacket(r)
    \/ \E r \in Routers : BackupPacket(r)
    \/ \E r \in Routers : BackupMasterDown(r)
    \/ \E r \in Routers : ChanSend(r)
    \/ \E r \in Routers : DaemonCheck(r)
    \/ \E r \in Routers : DaemonRead(r)
    \/ \E r \in Routers : MasterDownTimerFire(r)
    \/ \E r \in Routers : TickerFire(r)
    \/ \E r \in Routers : Start(r)
    \/ \E r \in Routers : InjectIPv6(r)
    \/ Tick

SpecIPv6 == InitIPv6 /\ [][NextIPv6]_vars

\* C29: for every advertisement delivered to the state machine, IPv4 or
\* IPv6, the pseudo-header's source address (the value compared with
\* preferred_source_ip in the equal-priority tie-break) is the source
\* address of the received datagram, and its destination address the
\* datagram's destination.
C29_PseudoHeader ==
    [][\A r \in Routers :
          Reads(r) /\ packetQueue'[r] # packetQueue[r]
             => LET d == Head(wire[r])
                    packet == packetQueue'[r][Len(packetQueue'[r])]
                IN  /\ packet.saddr = d.src
                    /\ packet.daddr = d.dst]_vars

\* The IPv6 Master has in its queue the advertisement of the peer at the
\* lower address fe80::9, of its own priority, with the multicast group
\* ff02::12 as the source that the tie-break will compare with fe80::10.
C29_Swapped ==
    \E r \in Routers :
       /\ Running(r)
       /\ vr[r].state = MASTER
       /\ vr[r].ipvX = IPv6
       /\ packetQueue[r] # <<>>
       /\ Head(packetQueue[r]).priority = vr[r].priority
       /\ Head(packetQueue[r]).saddr = VRRPMultiAddrIPv6
       /\ Head(packetQueue[r]).daddr = IP6Low
       /\ largerThan(Head(packetQueue[r]).saddr, vr[r].preferredSourceIP)
       /\ ~largerThan(IP6Low, vr[r].preferredSourceIP)

---------------------------------------------------------------------------
(* The reader's lifetime                                                   *)

\* C30: the reader started on START keeps running for as long as the
\* router is in Master or Backup, whatever the order of the reader's first
\* state check and the state machine's store of the new state: a running
\* router in Master or Backup whose connection has not been closed has its
\* reader.
C30_ReaderKeepsRunning ==
    \A r \in Routers :
       Running(r) /\ vr[r].state \in {MASTER, BACKUP} /\ closed[r] = 0
          => Readers(r) > 0

\* A router started once and never stopped is in Backup with its connection
\* open and no reader, every datagram it was sent being well formed, and an
\* advertisement for its VRID waits in the socket.
C30_ReaderGone ==
    \E r \in Routers :
       /\ Running(r)
       /\ starts[r] = 1
       /\ vr[r].state = BACKUP
       /\ obs[r].trans = "Init2Backup"
       /\ closed[r] = 0
       /\ Readers(r) = 0
       /\ wire[r] # <<>>
       /\ \A i \in 1..Len(wire[r]) : ~Malformed(r, wire[r][i])

---------------------------------------------------------------------------
(* The master-down timer's channel                                         *)

\* The runtime finds the master-down timer expired and takes it off its
\* heap (one timer function of a timer runs at a time).
MasterDownTimerExpire(r) ==
    /\ masterDownTimer[r].armed
    /\ masterDownTimer[r].remaining = 0
    /\ ~masterDownTimer[r].sending
    /\ masterDownTimer' = [masterDownTimer EXCEPT ![r].armed = FALSE,
                                                  ![r].d = 0,
                                                  ![r].sending = TRUE]
    /\ UNCHANGED <<vr, advertisementTicker, eventChannel, packetQueue, wire,
                   daemon, sm, pending, stopPc, closed, starts, net, obs>>
    /\ UNCHANGED codec

\* The function of the expired timer: a non-blocking send on C.
sendTime(r) ==
    /\ masterDownTimer[r].sending
    /\ masterDownTimer' = [masterDownTimer EXCEPT ![r].sending = FALSE,
                                                  ![r].C = 1]
    /\ UNCHANGED <<vr, advertisementTicker, eventChannel, packetQueue, wire,
                   daemon, sm, pending, stopPc, closed, starts, net, obs>>
    /\ UNCHANGED codec

\* Advertisements of a Master of priority 255 at 10.0.0.21, and its
\* resignation.
TimerDatagrams ==
    {[ttl |-> 255, src |-> IPHigh, dst |-> VRRPMultiAddrIPv4, sumOK |-> TRUE,
      pkt |-> PeerPacket(p, IPHigh, 100, LocalVRID)] : p \in {0, 255}}

InjectTimer(r) ==
    /\ r \in net
    /\ closed[r] = 0
    /\ daemon[r].check + daemon[r].read > 0
    /\ Len(wire[r]) + Len(packetQueue[r]) < MaxInFlight
    /\ \E d \in TimerDatagrams : wire' = [wire EXCEPT ![r] = Append(@, d)]
    /\ UNCHANGED <<vr, advertisementTicker, masterDownTimer, eventChannel,
                   packetQueue, daemon, sm, pending, stopPc, closed, starts,
                   net, obs>>
    /\ UNCHANGED codec

\* The router with the two steps of the timer's expiry apart.
NextTimer ==
    \/ \E r \in Routers : InitStart(r)
    \/ \E r \in Routers : InitShutdown(r)
    \/ \E r \in Routers : MasterEvent(r)
    \/ \E r \in Routers : MasterTicker(r)
    \/ \E r \in Routers : MasterPacket(r)
    \/ \E r \in Routers : BackupEvent(r)
    \/ \E r \in Routers : BackupPacket(r)
    \/ \E r \in Routers : BackupMasterDown(r)
    \/ \E r \in Routers : ChanSend(r)
    \/ \E r \in Routers : DaemonCheck(r)
    \/ \E r \in Routers : DaemonRead(r)
    \/ \E r \in Routers : MasterDownTimerExpire(r)
    \/ \E r \in Routers : sendTime(r)
    \/ \E r \in Routers : TickerFire(r)
    \/ \E r \in Routers : Start(r)
    \/ \E r \in Routers : StopCall(r)
    \/ \E r \in Routers : StopSend(r)
    \/ \E r \in Routers : InjectTimer(r)
    \/ Tick

SpecTimer == Init /\ [][NextTimer]_vars

\* C31: after the master-down timer is stopped or reset, no expiry signal
\* of an earlier arming is consumed by the state machine: the Backup that
\* takes a signal from the timer's channel and becomes Master does so when
\* the most recent arming has run its full duration, that is, with the
\* timer expired and not armed again since.
C31_NoStaleExpiry ==
    [][\A r \in Routers :
          /\ vr[r].state = BACKUP
          /\ masterDownTimer[r].C = 1
          /\ masterDownTimer'[r].C = 0
          /\ vr'[r].state = MASTER
          => ~masterDownTimer[r].armed]_vars

\* A router has just become Master on the master-down timer's signal while
\* that timer, re-armed by the advertisement taken before, still has its
\* whole duration to run.
C31_StaleExpiry ==
    \E r \in Routers :
       /\ Running(r)
       /\ vr[r].state = MASTER
       /\ obs[r].trans = "Backup2Master"
       /\ masterDownTimer[r].armed
       /\ masterDownTimer[r].d > 0
       /\ masterDownTimer[r].remaining = masterDownTimer[r].d

---------------------------------------------------------------------------
(* The protected addresses of a started router                             *)

LiveVIPs == {<<10, 0, 0, 101>>}

\* r.AddIPvXAddr(ip) called from the caller's goroutine after Start(): the
\* assignment to the map begins.
LiveAddIPvXAddr(r) ==
    /\ r \in net
    /\ starts[r] > 0
    /\ sm[r] = "running"
    /\ vr[r].hashWriting = NoWrite
    /\ \E ip \in LiveVIPs :
          /\ ip \notin vr[r].protectedIPaddrs
          /\ vr' = [vr EXCEPT ![r].hashWriting = [op |-> "assign", ip |-> ip]]
    /\ UNCHANGED <<advertisementTicker, masterDownTimer, eventChannel,
                   packetQueue, wire, daemon, sm, pending, stopPc, closed,
                   starts, net, obs, codec>>

\* r.RemoveIPvXAddr(ip) called from the caller's goroutine after Start():
\* the deletion from the map begins.
LiveRemoveIPvXAddr(r) ==
    /\ r \in net
    /\ starts[r] > 0
    /\ sm[r] = "running"
    /\ vr[r].hashWriting = NoWrite
    /\ \E ip \in LiveVIPs :
          /\ ip \in vr[r].protectedIPaddrs
          /\ vr' = [vr EXCEPT ![r].hashWriting = [op |-> "delete", ip |-> ip]]
    /\ UNCHANGED <<advertisementTicker, masterDownTimer, eventChannel,
                   packetQueue, wire, daemon, sm, pending, stopPc, closed,
                   starts, net, obs, codec>>

\* The write to the map is done.
LiveWriteDone(r) ==
    /\ vr[r].hashWriting # NoWrite
    /\ sm[r] = "running"
    /\ LET w == vr[r].hashWriting
           v == [vr[r] EXCEPT !.hashWriting = NoWrite]
       IN  vr' = [vr EXCEPT ![r] = IF w.op = "assign"
                                   THEN AddIPvXAddr(v, w.ip)
                                   ELSE RemoveIPvXAddr(v, w.ip)]
    /\ UNCHANGED <<advertisementTicker, masterDownTimer, eventChannel,
                   packetQueue, wire, daemon, sm, pending, stopPc, closed,
                   starts, net, obs, codec>>

\* The state machine is at a branch that iterates the map: it assembles an
\* advertisement or announces the addresses.
AtIteration(r) ==
    /\ Running(r)
    /\ \/ /\ vr[r].state = INIT
          /\ eventChannel[r] # <<>>
          /\ Head(eventChannel[r]) = START
          /\ IsOwner(vr[r])
       \/ /\ vr[r].state = MASTER
          /\ \/ advertisementTicker[r].C = 1
             \/ eventChannel[r] # <<>> /\ Head(eventChannel[r]) = SHUTDOWN
       \/ /\ vr[r].state = BACKUP
          /\ masterDownTimer[r].C = 1

\* The iteration meets the map flagged as being written: the runtime ends
\* the process with "concurrent map iteration and map write".
fatal(r) ==
    /\ AtIteration(r)
    /\ vr[r].hashWriting # NoWrite
    /\ sm' = [sm EXCEPT ![r] = "fatal"]
    /\ UNCHANGED <<vr, advertisementTicker, masterDownTimer, eventChannel,
                   packetQueue, wire, daemon, pending, stopPc, closed, starts,
                   net, obs, codec>>

NextLive ==
    \/ \E r \in Routers : InitStart(r)
    \/ \E r \in Routers : MasterTicker(r)
    \/ \E r \in Routers : MasterPacket(r)
    \/ \E r \in Routers : BackupMasterDown(r)
    \/ \E r \in Routers : ChanSend(r)
    \/ \E r \in Routers : DaemonCheck(r)
    \/ \E r \in Routers : DaemonRead(r)
    \/ \E r \in Routers : MasterDownTimerFire(r)
    \/ \E r \in Routers : TickerFire(r)
    \/ \E r \in Routers : Start(r)
    \/ \E r \in Routers : LiveAddIPvXAddr(r)
    \/ \E r \in Routers : LiveRemoveIPvXAddr(r)
    \/ \E r \in Routers : LiveWriteDone(r)
    \/ \E r \in Routers : fatal(r)
    \/ Tick

SpecLive == Init /\ [][NextLive]_vars

\* C32: mutations of the protected-IP set are serialized with the send
\* path's reads.  The state machine never assembles an advertisement or an
\* announcement while a write to the set, made by AddIPvXAddr or
\* RemoveIPvXAddr after Start(), is under way, and while the state machine
\* runs nothing else changes the set it reads.
C32_Serialized ==
    [][\A r \in Routers :
          /\ (/\ obs'[r] # obs[r]
              /\ obs'[r].sent # <<>> \/ obs'[r].announce # <<>>)
                => vr[r].hashWriting = NoWrite
          /\ Running(r) =>
                vr'[r].protectedIPaddrs = vr[r].protectedIPaddrs]_vars

\* The process has ended in the runtime's fatal error: the Master's ticker
\* branch came to iterate the set during a write made by the caller.
C32_Crashed ==
    \E r \in Routers :
       /\ sm[r] = "fatal"
       /\ vr[r].state = MASTER
       /\ advertisementTicker[r].C = 1
       /\ vr[r].hashWriting # NoWrite

---------------------------------------------------------------------------
(* The advertisement queue under load                                      *)

\* Advertisements of two peers, told apart by their priorities.
QueueDatagrams ==
    {GoodDatagram,
     [GoodDatagram EXCEPT !.pkt = PeerPacket(254, IPHigh, 100, LocalVRID)]}

\* Datagrams keep arriving: the first MaxBurst of a backlog are of either
\* peer, the rest of the first, and a backlog grows beyond MaxBurst only as
\* long as the state machine has not begun to work on it and has nothing
\* but the backlog to work on.
InjectQueue(r) ==
    /\ r \in net
    /\ closed[r] = 0
    /\ daemon[r].check + daemon[r].read > 0
    /\ wire[r] = <<>>
    /\ Len(packetQueue[r]) >= MaxBurst =>
          /\ obs[r].ev # "packet"
          /\ advertisementTicker[r].C = 0
          /\ masterDownTimer[r].C = 0
          /\ ~TimerDue(r)
          /\ eventChannel[r] = <<>>
    /\ \E d \in QueueDatagrams :
          /\ d # GoodDatagram => Len(packetQueue[r]) < MaxBurst
          /\ wire' = [wire EXCEPT ![r] = Append(@, d)]
    /\ UNCHANGED <<vr, advertisementTicker, masterDownTimer, eventChannel,
                   packetQueue, daemon, sm, pending, stopPc, closed, starts,
                   net, obs, codec>>

NextQueue ==
    \/ \E r \in Routers : InitStart(r)
    \/ \E r \in Routers : MasterTicker(r)
    \/ \E r \in Routers : MasterPacket(r)
    \/ \E r \in Routers : BackupPacket(r)
    \/ \E r \in Routers : BackupMasterDown(r)
    \/ \E r \in Routers : ChanSend(r)
    \/ \E r \in Routers : DaemonCheck(r)
    \/ \E r \in Routers : DaemonRead(r)
    \/ \E r \in Routers : MasterDownTimerFire(r)
    \/ \E r \in Routers : TickerFire(r)
    \/ \E r \in Routers : Start(r)
    \/ \E r \in Routers : InjectQueue(r)
    \/ Tick

SpecQueue == Init /\ [][NextQueue]_vars

\* C33: the advertisement queue is a bounded FIFO.  It never holds more
\* than 512 entries; an advertisement the reader accepts is appended to it,
\* the reader waiting while the queue is full; and the state machine takes
\* the advertisements from its head, in the order the reader accepted them.
C33_BoundedFIFO ==
    [][\A r \in Routers :
          /\ Len(packetQueue'[r]) <= PACKET_QUEUE_SIZE
          /\ Reads(r) => Len(packetQueue[r]) < PACKET_QUEUE_SIZE
          /\ (/\ Reads(r)
              /\ ReadMessageOK(Head(wire[r]))
              /\ Head(wire[r]).pkt.vrid = vr[r].vrID)
                => packetQueue'[r] =
                      Append(packetQueue[r],
                             vrrpConnReadMessage(vr[r], Head(wire[r])))
          /\ (packetQueue'[r] # packetQueue[r] /\ ~Reads(r))
                => /\ packetQueue[r] # <<>>
                   /\ packetQueue'[r] = Tail(packetQueue[r])
                   /\ obs'[r].ev = "packet"
                   /\ obs'[r].prio = Head(packetQueue[r]).priority]_vars

\* The queue is full, with advertisements of both peers in it; the reader
\* is alive and the next datagram waits for the state machine to dequeue.
C33_Full ==
    \E r \in Routers :
       /\ Len(packetQueue[r]) = PACKET_QUEUE_SIZE
       /\ packetQueue[r][1].priority = 254
       /\ packetQueue[r][2].priority = 255
       /\ Readers(r) > 0
       /\ wire[r] # <<>>

---------------------------------------------------------------------------
(* Adding and removing protected addresses                                 *)

\* 10.0.0.101 and 10.0.0.102 as 4-byte slices and, as net.ParseIP returns
\* them, as 16-byte slices; fe80::100 and fe80::200; and a slice that is
\* no address.
AddrInputs ==
    {<<10, 0, 0, 101>>, <<10, 0, 0, 102>>,
     v4InV6Prefix \o <<10, 0, 0, 101>>, v4InV6Prefix \o <<10, 0, 0, 102>>,
     VIP6, <<254, 128, 0, 0, 0, 0, 0, 0, 0, 0, 0, 0, 0, 0, 2, 0>>,
     <<10, 0, 0>>}

\* The address is of the router's family: an IPv4 address in either form
\* for an IPv4 router, a 16-byte address that is no IPv4 address for an
\* IPv6 router.
OfFamily(v, ip) ==
    IF v.ipvX = IPv4 THEN To4(ip) # <<>>
    ELSE Len(ip) = 16 /\ To4(ip) = <<>>

\* The address is of the other family.
OfOtherFamily(v, ip) ==
    IF v.ipvX = IPv4 THEN Len(ip) = 16 /\ To4(ip) = <<>>
    ELSE To4(ip) # <<>>

\* The set holds the address, under whichever key.
Protects(v, ip) ==
    \E key \in v.protectedIPaddrs : To16(key) = To16(ip)

\* The call that is made now, after the one made before it.
AddrCall(r, op, ip) ==
    [Observe(op, <<>>, <<>>, "none")
        EXCEPT !.called = <<[op |-> obs[r].ev, ip |-> obs[r].sent],
                            [op |-> op, ip |-> ip]>>,
               !.sent = ip]

DoAddIPvXAddr(r) ==
    /\ Unstarted(r)
    /\ \E ip \in AddrInputs :
          /\ vr' = [vr EXCEPT ![r] = AddIPvXAddr(@, ip)]
          /\ obs' = [obs EXCEPT ![r] = AddrCall(r, "AddIPvXAddr", ip)]
    /\ UNCHANGED <<advertisementTicker, masterDownTimer, eventChannel,
                   packetQueue, wire, daemon, sm, pending, stopPc, closed,
                   starts, net, codec>>

DoRemoveIPvXAddr(r) ==
    /\ Unstarted(r)
    /\ \E ip \in AddrInputs :
          /\ vr' = [vr EXCEPT ![r] = RemoveIPvXAddr(@, ip)]
          /\ obs' = [obs EXCEPT ![r] = AddrCall(r, "RemoveIPvXAddr", ip)]
    /\ UNCHANGED <<advertisementTicker, masterDownTimer, eventChannel,
                   packetQueue, wire, daemon, sm, pending, stopPc, closed,
                   starts, net, codec>>

\* An IPv4 or an IPv6 router as NewVirtualRouter leaves it, no address added.
InitAddr ==
    /\ InitCommon
    /\ net = {"A"}
    /\ \E six \in BOOLEAN :
          vr = [r \in Routers |->
                   NewVirtualRouter(LocalVRID,
                                    IF six THEN InterfaceIPv6[r]
                                    ELSE InterfaceIP[r], FALSE)]

NextAddr ==
    \/ \E r \in Routers : DoAddIPvXAddr(r)
    \/ \E r \in Routers : DoRemoveIPvXAddr(r)

SpecAddr == InitAddr /\ [][NextAddr]_vars

\* C34: for every address x of the router's family, in its 4-byte or its
\* 16-byte form, AddIPvXAddr(x) followed by RemoveIPvXAddr(x) leaves the
\* set without x; adding x a second time changes nothing; removing an
\* address the set does not hold and adding an address of the other family
\* leave the set unchanged.
C34_AddRemove ==
    [][\A r \in Routers :
          LET was == obs[r]
              now == obs'[r].called[2]
              set == vr[r].protectedIPaddrs
              set1 == vr'[r].protectedIPaddrs
          IN  obs'[r] # obs[r] =>
              /\ (/\ now.op = "RemoveIPvXAddr"
                  /\ was.ev = "AddIPvXAddr"
                  /\ was.sent = now.ip
                  /\ OfFamily(vr[r], now.ip))
                    => ~Protects(vr'[r], now.ip)
              /\ (/\ now.op = "AddIPvXAddr"
                  /\ was.ev = "AddIPvXAddr"
                  /\ was.sent = now.ip)
                    => set1 = set
              /\ (now.op = "RemoveIPvXAddr" /\ ~Protects(vr[r], now.ip))
                    => set1 = set
              /\ (now.op = "AddIPvXAddr" /\ OfOtherFamily(vr[r], now.ip))
                    => set1 = set]_vars

\* An IPv4 router was given 10.0.0.101 as a 16-byte slice, then told to
\* remove the same slice, and still protects the address.
C34_StillProtected ==
    \E r \in Routers :
       /\ vr[r].ipvX = IPv4
       /\ obs[r].ev = "RemoveIPvXAddr"
       /\ obs[r].called = <<[op |-> "AddIPvXAddr",
                             ip |-> v4InV6Prefix \o <<10, 0, 0, 101>>],
                            [op |-> "RemoveIPvXAddr",
                             ip |-> v4InV6Prefix \o <<10, 0, 0, 101>>]>>
       /\ <<10, 0, 0, 101>> \in vr[r].protectedIPaddrs

---------------------------------------------------------------------------
(* The timers at the state machine's wait points                           *)

\* The master-down timer will deliver an expiry or has one waiting.
MasterDownPending(r) ==
    \/ masterDownTimer[r].armed
    \/ masterDownTimer[r].sending
    \/ masterDownTimer[r].C = 1

\* C35: whenever the state machine waits for its next event, the
\* advertisement ticker runs if and only if the state is Master and the
\* master-down timer is pending if and only if the state is Backup; in
\* Initialize neither is pending.
C35_TimersFollowState ==
    \A r \in Routers :
       Running(r) =>
          /\ advertisementTicker[r].running <=> vr[r].state = MASTER
          /\ MasterDownPending(r) <=> vr[r].state = BACKUP

\* The state machine waits in Initialize after a shutdown in Backup, and
\* the expiry that the stopped master-down timer still sent waits with it.
C35_ExpiryInInitialize ==
    \E r \in Routers :
       /\ Running(r)
       /\ vr[r].state = INIT
       /\ obs[r].trans = "Backup2Init"
       /\ ~masterDownTimer[r].armed
       /\ masterDownTimer[r].C = 1

---------------------------------------------------------------------------
(* Where advertisements are emitted                                        *)

\* The datagrams of router r that the step puts on the network, seen at
\* r's own socket, where multicast loopback delivers a copy of each.
Emitted(r) ==
    IF Len(wire'[r]) > Len(wire[r])
       /\ SubSeq(wire'[r], 1, Len(wire[r])) = wire[r]
       /\ wire'[r][Len(wire'[r])].src = Datagram(r, assembleVRRPPacket(vr[r])).src
    THEN SubSeq(wire'[r], Len(wire[r]) + 1, Len(wire'[r]))
    ELSE <<>>

\* The connection of r is open and its socket has room for the copy.
CanEmit(r) == r \in net /\ closed[r] = 0 /\ Len(wire[r]) < SockBuf

\* C36: a router emits advertisements only on Init->Master, on
\* Backup->Master, for a tick of its ticker while Master and, with priority
\* 0, on the shutdown of a Master, one at each of these points; a router
\* in Backup or Initialize that stays there emits nothing.
C36_EmissionPoints ==
    [][\A r \in Routers :
          LET own == Datagram(r, assembleVRRPPacket(vr[r]))
              resign == Datagram(r, assembleVRRPPacket(setPriority(vr[r], 0)))
              Init2MasterStep == /\ vr[r].state = INIT
                                 /\ vr'[r].state = MASTER
              Backup2MasterStep == /\ vr[r].state = BACKUP
                                   /\ TakesExpiry(r)
                                   /\ vr'[r].state = MASTER
              TickStep == /\ vr[r].state = MASTER
                          /\ vr'[r].state = MASTER
                          /\ advertisementTicker[r].C = 1
                          /\ advertisementTicker'[r].C = 0
              Master2InitStep == /\ vr[r].state = MASTER
                                 /\ vr'[r].state = INIT
          IN  /\ Emitted(r) # <<>> =>
                    \/ Init2MasterStep /\ Emitted(r) = <<own>>
                    \/ Backup2MasterStep /\ Emitted(r) = <<own>>
                    \/ TickStep /\ Emitted(r) = <<own>>
                    \/ Master2InitStep /\ Emitted(r) = <<resign>>
              /\ (/\ CanEmit(r)
                  /\ \/ Init2MasterStep
                     \/ Backup2MasterStep
                     \/ TickStep
                     \/ Master2InitStep)
                    => Len(Emitted(r)) = 1
              /\ (vr[r].state \in {INIT, BACKUP} /\ vr'[r].state = vr[r].state)
                    => Emitted(r) = <<>>]_vars

\* A Backup has just taken an advertisement from its queue and stays
\* Backup; the only datagram at its socket is a peer's.
C36_SilentBackup ==
    \E r \in Routers :
       /\ Running(r)
       /\ vr[r].state = BACKUP
       /\ obs[r].ev = "packet"
       /\ obs[r].sent = <<>>
       /\ wire[r] # <<>>
       /\ \A i \in 1..Len(wire[r]) :
             wire[r][i].src # Datagram(r, assembleVRRPPacket(vr[r])).src

---------------------------------------------------------------------------
(* Stop() called at any time                                               *)

\* The number of SHUTDOWN goroutines that may wait at the event channel.
MaxStops == 3

\* r.Stop() as the caller may call it, before Start() as well and while
\* SHUTDOWNs of earlier calls are still on their way: the state is read;
\* outside INIT the caller goes on to its own send, in INIT it spawns the
\* goroutine and returns.
Stop(r) ==
    /\ r \in net
    /\ stopPc[r] = "idle"
    /\ pending[r][SHUTDOWN] < MaxStops
    /\ IF vr[r].state # INIT
       THEN /\ stopPc' = [stopPc EXCEPT ![r] = "send"]
            /\ UNCHANGED pending
       ELSE /\ pending' = [pending EXCEPT ![r][SHUTDOWN] = @ + 1]
            /\ UNCHANGED stopPc
    /\ UNCHANGED <<vr, advertisementTicker, masterDownTimer, eventChannel,
                   packetQueue, wire, daemon, sm, closed, starts, net, obs,
                   codec>>

NextStop ==
    \/ \E r \in Routers : InitStart(r)
    \/ \E r \in Routers : InitShutdown(r)
    \/ \E r \in Routers : MasterEvent(r)
    \/ \E r \in Routers : MasterTicker(r)
    \/ \E r \in Routers : MasterPacket(r)
    \/ \E r \in Routers : BackupEvent(r)
    \/ \E r \in Routers : BackupPacket(r)
    \/ \E r \in Routers : BackupMasterDown(r)
    \/ \E r \in Routers : ChanSend(r)
    \/ \E r \in Routers : DaemonCheck(r)
    \/ \E r \in Routers : DaemonRead(r)
    \/ \E r \in Routers : MasterDownTimerFire(r)
    \/ \E r \in Routers : TickerFire(r)
    \/ \E r \in Routers : Start(r)
    \/ \E r \in Routers : Stop(r)
    \/ \E r \in Routers : StopSend(r)
    \/ \E r \in Routers : InjectResign(r)
    \/ Tick

SpecStop == InitResign /\ [][NextStop]_vars /\ Scheduling

\* C37: a Stop() whose caller has gone on to send SHUTDOWN itself gets the
\* send done and returns, in every state of the router and however the
\* call interleaves with Start() and the state machine.
C37_StopReturns ==
    \A r \in Routers : (stopPc[r] = "send") ~> (stopPc[r] = "idle")

\* The caller of Stop() read Master or Backup and waits to send; the state
\* machine has returned meanwhile and the one slot of the channel is taken
\* by an event that nobody will receive.
C37_CallerBlocked ==
    \E r \in Routers :
       /\ stopPc[r] = "send"
       /\ sm[r] = "returned"
       /\ Len(eventChannel[r]) = EVENT_CHANNEL_SIZE

---------------------------------------------------------------------------
(* A Master and the copies of its own advertisements                       *)

\* The source address of the datagram the packet came in, which the IPv4
\* connection stores as the pseudo-header's Saddr and the IPv6 connection
\* as its Daddr.
cmSrc(v, packet) == IF v.ipvX = IPv4 THEN packet.saddr ELSE packet.daddr

\* The packet is a copy of an advertisement that v sent itself.
OwnAdvertisement(v, packet) ==
    /\ packet.priority = v.priority
    /\ cmSrc(v, packet) = v.preferredSourceIP

\* C38: a Master that takes a copy of its own advertisement (its priority,
\* its preferred source address as the datagram's source) from its queue
\* stays Master with its ticker running.
C38_OwnAdvertisementIgnored ==
    [][\A r \in Routers :
          (/\ vr[r].state = MASTER
           /\ TakesPacket(r)
           /\ OwnAdvertisement(vr[r], Head(packetQueue[r])))
          => /\ vr'[r].state = MASTER
             /\ advertisementTicker'[r].running]_vars

\* The IPv6 Master has the copy of its own advertisement at the head of its
\* queue, with the multicast group as the address that the tie-break
\* compares with its own, and the packet branch finds itself outranked.
C38_OutrankedByItself ==
    \E r \in Routers :
       /\ Running(r)
       /\ vr[r].state = MASTER
       /\ vr[r].ipvX = IPv6
       /\ packetQueue[r] # <<>>
       /\ OwnAdvertisement(vr[r], Head(packetQueue[r]))
       /\ Head(packetQueue[r]).saddr = VRRPMultiAddrIPv6
       /\ Outranks(Head(packetQueue[r]), vr[r])

---------------------------------------------------------------------------
(* largerThan as an order                                                  *)

\* Octets at the ends and in the middle of the range of a byte.
OrderOctets == {0, 127, 255}

\* The nil address, 4-byte and 16-byte addresses that differ in their
\* first, an inner or their last byte.
OrderAddrs ==
    {<<>>}
    \cup {<<a, b, 0, c>> : a \in OrderOctets, b \in {0, 255}, c \in OrderOctets}
    \cup {<<a, 0, 0, 0, 0, 0, 0, 0, 0, 0, 0, 0, 0, 0, 0, c>> :
             a \in OrderOctets, c \in OrderOctets}

InitOrder ==
    /\ InitAtRest
    /\ \E a \in OrderAddrs, b \in OrderAddrs, c \in OrderAddrs :
          codec = [pc |-> "addresses", a |-> a, b |-> b, c |-> c,
                   ab |-> FALSE, ba |-> FALSE, bc |-> FALSE, ac |-> FALSE]

CallLargerThan ==
    /\ codec.pc = "addresses"
    /\ codec' = [codec EXCEPT
                    !.pc = "compared",
                    !.ab = largerThan(codec.a, codec.b),
                    !.ba = largerThan(codec.b, codec.a),
                    !.bc = largerThan(codec.b, codec.c),
                    !.ac = largerThan(codec.a, codec.c)]
    /\ AtRest

NextOrder == CallLargerThan

SpecOrder == InitOrder /\ [][NextOrder]_vars

\* C39: on addresses of equal length largerThan is a strict total order:
\* largerThan(a, a) is false, largerThan(a, b) and largerThan(b, a) are
\* never both true, exactly one of them is true for distinct a and b, and
\* largerThan(a, b) with largerThan(b, c) gives largerThan(a, c); for
\* addresses of different lengths it is false in both directions.
C39_StrictTotalOrder ==
    codec.pc = "compared" =>
       IF Len(codec.a) = Len(codec.b)
       THEN /\ codec.a = codec.b => ~codec.ab /\ ~codec.ba
            /\ ~(codec.ab /\ codec.ba)
            /\ codec.a # codec.b => (codec.ab \/ codec.ba)
            /\ (Len(codec.b) = Len(codec.c) /\ codec.ab /\ codec.bc)
                  => codec.ac
       ELSE ~codec.ab /\ ~codec.ba

\* Two IPv4 addresses that differ in their last byte only have been
\* compared: the one with the larger last byte is the larger.
C39_LastByteDecides ==
    /\ codec.pc = "compared"
    /\ codec.a = <<127, 0, 0, 255>>
    /\ codec.b = <<127, 0, 0, 127>>
    /\ codec.c = <<>>
    /\ codec.ab
    /\ ~codec.ba

---------------------------------------------------------------------------
(* The interval a Master advertises and the period of its ticker           *)

\* Arguments of SetAdvInterval in ms: below the minimum, the default, the
\* largest value of 12 bits in centiseconds and the next one.
AnyIntervalsMs == {5, 1000, 40950, 40960}

\* r.SetAdvInterval(Interval) called at any time, before Start() or from
\* the caller's goroutine during a tenure.
LiveSetAdvInterval(r) ==
    /\ r \in net
    /\ \E ms \in AnyIntervalsMs :
          vr' = [vr EXCEPT ![r] = SetAdvInterval(@, ms)]
    /\ UNCHANGED <<advertisementTicker, masterDownTimer, eventChannel,
                   packetQueue, wire, daemon, sm, pending, stopPc, closed,
                   starts, net, obs, codec>>

NextInterval ==
    \/ \E r \in Routers : InitStart(r)
    \/ \E r \in Routers : InitShutdown(r)
    \/ \E r \in Routers : MasterEvent(r)
    \/ \E r \in Routers : MasterTicker(r)
    \/ \E r \in Routers : MasterPacket(r)
    \/ \E r \in Routers : BackupEvent(r)
    \/ \E r \in Routers : BackupMasterDown(r)
    \/ \E r \in Routers : ChanSend(r)
    \/ \E r \in Routers : DaemonCheck(r)
    \/ \E r \in Routers : DaemonRead(r)
    \/ \E r \in Routers : MasterDownTimerFire(r)
    \/ \E r \in Routers : TickerFire(r)
    \/ \E r \in Routers : Start(r)
    \/ \E r \in Routers : StopCall(r)
    \/ \E r \in Routers : StopSend(r)
    \/ \E r \in Routers : LiveSetAdvInterval(r)
    \/ Tick

SpecInterval == Init /\ [][NextInterval]_vars

\* The period, in ms, of the ticker that runs when r emits: the one made
\* by the step, or the one the step stops.
TenurePeriod(r) ==
    IF advertisementTicker'[r].running THEN advertisementTicker'[r].period
    ELSE advertisementTicker[r].period

\* C40: the interval field of every advertisement a Master emits is the
\* period of its ticker in centiseconds, and the four reserved bits next to
\* it are zero, for every interval SetAdvInterval accepts, whenever it is
\* called.
C40_FieldIsPeriod ==
    [][\A r \in Routers :
          \A i \in 1..Len(Emitted(r)) :
             LET v == IF vr[r].state = INIT THEN vr'[r] ELSE vr[r]
                 built == BuildPacket(v.ipvX, v.vrID, Emitted(r)[i].pkt.priority,
                                      v.advertisementInterval, 1)
             IN  /\ Emitted(r)[i].pkt.maxAdvInt * 10 = TenurePeriod(r)
                 /\ GetAdvertisementInterval(built) = Emitted(r)[i].pkt.maxAdvInt
                 /\ HighNibble(built.Header[5]) = 0]_vars

\* A Master whose ticker was made with the default period of 1000 ms has
\* just taken a tick and advertised an interval of 1 centisecond.
C40_StalePeriod ==
    \E r \in Routers :
       /\ Running(r)
       /\ vr[r].state = MASTER
       /\ obs[r].ev = "ticker"
       /\ Len(obs[r].sent) = 1
       /\ obs[r].sent[1].maxAdvInt = 1
       /\ advertisementTicker[r].running
       /\ advertisementTicker[r].period = 1000
====
